---- MODULE Spec2Model ----
(***************************************************************************)
(* State-machine model of the prompt enhancer front end: the App component *)
(* (src/App.tsx), its handlers and render gating, and the generation       *)
(* service (src/services/geminiService.ts).                                *)
(*                                                                         *)
(* Conventions.  A nullable value (null / undefined in the source) is a    *)
(* sequence of length at most one: None is <<>>, Some(v) is <<v>>.  A text *)
(* the code trims or parses is a sequence of one-character strings; an     *)
(* error message, which the code only stores and shows, is a string.       *)
(* An asynchronous handler is a record in `requests` from its first await  *)
(* to its last state update; a FileReader started by handleImageUpload is  *)
(* a record in `previewReads` until its onloadend fires.                   *)
(***************************************************************************)
EXTENDS Integers, Sequences, FiniteSets, TLC

VARIABLES
    env,                            \* process.env, fixed at start
    mounted,                        \* the mount effect (useEffect, []) has run
    appState,
    basicPrompt,
    questionAnswers,
    enhancedResult,
    error,
    apiKeyExists,
    subjectReferenceImageFile,
    subjectReferenceImagePreview,
    styleReferenceImageFile,
    styleReferenceImagePreview,
    outputAspectRatio,
    outputCustomWidth,
    outputCustomHeight,
    isEditingEnhancedPrompt,
    editedEnhancedPromptText,
    requests,                       \* handler invocations suspended at an await
    previewReads,                   \* FileReaders of handleImageUpload not yet ended
    lastEvent                       \* history: the handler step taken last

vars == << env, mounted, appState, basicPrompt, questionAnswers, enhancedResult,
           error, apiKeyExists, subjectReferenceImageFile,
           subjectReferenceImagePreview, styleReferenceImageFile,
           styleReferenceImagePreview, outputAspectRatio, outputCustomWidth,
           outputCustomHeight, isEditingEnhancedPrompt, editedEnhancedPromptText,
           requests, previewReads, lastEvent >>

(***************************************************************************)
(* Nullable values                                                         *)
(***************************************************************************)
None == <<>>

Some(v) == <<v>>

(***************************************************************************)
(* Program constants                                                       *)
(***************************************************************************)
MAX_IMAGE_SIZE_MB == 5

ALLOWED_IMAGE_TYPES == {"image/jpeg", "image/png", "image/webp"}

IPHONE_14_WALLPAPER_OPTION_VALUE == "iphone_14_14pro_wallpaper"

NUMBER_OF_QUESTIONS_TO_ASK == 11

GeneratingStates ==
    { "GENERATING_DESCRIPTION", "GENERATING_QUESTIONS", "GENERATING_ENHANCEMENT",
      "GENERATING_MAGIC_PROMPT", "GENERATING_COPY_PROMPT",
      "GENERATING_STYLE_INFLUENCE_PROMPT", "GENERATING_REFINEMENT" }

AppStates ==
    { "INITIAL", "ASKING_QUESTIONS", "SHOWING_RESULTS", "ERROR" } \cup GeneratingStates

RASTER_PROMPT == "RASTER_PROMPT"

(***************************************************************************)
(* Texts: String.prototype.trim and parseInt                               *)
(***************************************************************************)
WhiteSpace == {" ", "\t", "\n"}

RECURSIVE TrimStart(_)
TrimStart(s) ==
    IF s # <<>> /\ Head(s) \in WhiteSpace THEN TrimStart(Tail(s)) ELSE s

RECURSIVE TrimEnd(_)
TrimEnd(s) ==
    IF s # <<>> /\ s[Len(s)] \in WhiteSpace
    THEN TrimEnd(SubSeq(s, 1, Len(s) - 1))
    ELSE s

\* String.prototype.trim
Trim(s) == TrimEnd(TrimStart(s))

\* The value of a digit character, -1 for a character that is no digit.
DigitVal(c) ==
    CASE c = "0" -> 0 [] c = "1" -> 1 [] c = "2" -> 2 [] c = "3" -> 3
      [] c = "4" -> 4 [] c = "5" -> 5 [] c = "6" -> 6 [] c = "7" -> 7
      [] c = "8" -> 8 [] c = "9" -> 9
      [] c \in {"a", "A"} -> 10 [] c \in {"b", "B"} -> 11 [] c \in {"c", "C"} -> 12
      [] c \in {"d", "D"} -> 13 [] c \in {"e", "E"} -> 14 [] c \in {"f", "F"} -> 15
      [] OTHER -> -1

IsDigit(c, radix) == DigitVal(c) >= 0 /\ DigitVal(c) < radix

\* The longest prefix of s made of digits of the radix.
RECURSIVE DigitPrefix(_, _)
DigitPrefix(s, radix) ==
    IF s # <<>> /\ IsDigit(Head(s), radix)
    THEN <<Head(s)>> \o DigitPrefix(Tail(s), radix)
    ELSE <<>>

RECURSIVE DigitsValue(_, _, _)
DigitsValue(s, radix, acc) ==
    IF s = <<>> THEN acc
    ELSE DigitsValue(Tail(s), radix, acc * radix + DigitVal(Head(s)))

\* NaN is None; a number n is Some(n).
NaN == None

\* parseInt(s, radix); radix 0 stands for a call without a radix.
ParseInt(s, radix) ==
    LET t == TrimStart(s)
        negative == t # <<>> /\ Head(t) = "-"
        u == IF t # <<>> /\ Head(t) \in {"-", "+"} THEN Tail(t) ELSE t
        hex == /\ radix = 0
               /\ Len(u) >= 2
               /\ u[1] = "0"
               /\ u[2] \in {"x", "X"}
        r == IF hex THEN 16 ELSE IF radix = 0 THEN 10 ELSE radix
        v == IF hex THEN SubSeq(u, 3, Len(u)) ELSE u
        z == DigitPrefix(v, r)
    IN  IF z = <<>> THEN NaN
        ELSE Some((IF negative THEN -1 ELSE 1) * DigitsValue(z, r, 0))

\* isNaN(x)
IsNaN(x) == x = NaN

\* x <= 0, false when x is NaN
LeqZero(x) == x # NaN /\ x[1] <= 0

\* A text as the string a template literal embeds.
RECURSIVE TextToString(_)
TextToString(s) ==
    IF s = <<>> THEN "" ELSE Head(s) \o TextToString(Tail(s))

(***************************************************************************)
(* Files, data URLs and image payloads                                     *)
(***************************************************************************)
MegaByte == 1024 * 1024

File(name, type, size) == [name |-> name, type |-> type, size |-> size]

\* The base64 text FileReader.readAsDataURL produces for a file's bytes.
Base64(file) == "b64(" \o file.name \o ")"

\* reader.result of a successful readAsDataURL, as its comma-separated pieces.
DataURL(file) == << "data:" \o file.type \o ";base64", Base64(file) >>

\* (reader.result as string).split(',')[1] and the file's declared type.
ReferenceImage(file) == [base64 |-> DataURL(file)[2], mimeType |-> file.type]

(***************************************************************************)
(* The generative model's replies (the environment).  generateContent      *)
(* either rejects or yields a text; JSON.parse of the text either throws   *)
(* or yields a value.                                                      *)
(***************************************************************************)
RejectedWith(detail) == [kind |-> "rejected", detail |-> detail]

Rejected == RejectedWith("network error")

NotJson(text) == [kind |-> "text", text |-> text, json |-> None]

Json(value) == [kind |-> "text", text |-> <<"j">>, json |-> Some(value)]

JsonNull == [type |-> "null"]

JsonObject(enhancedPrompt, negativePrompt, suggestions) ==
    [type |-> "object", enhancedPrompt |-> enhancedPrompt,
     negativePrompt |-> negativePrompt, suggestions |-> suggestions]

JsonArray(items) == [type |-> "array", items |-> items]

JsonQuestion(id, questionText, options) ==
    [type |-> "object", id |-> id, questionText |-> questionText, options |-> options]

\* The error a service function catches and logs (console.error) when the
\* call or the parsing of its reply throws: the provider's error, JSON.parse's
\* SyntaxError, or the TypeError of using a value that is not of the shape.
ThrownBy(reply) ==
    IF reply.kind = "rejected" THEN reply.detail
    ELSE IF reply.json = None THEN "SyntaxError: " \o TextToString(reply.text)
    ELSE "TypeError"

\* The outcome of a service call: a value, or the Error the function throws.
Ok(value) == [ok |-> TRUE, value |-> value]

Fail(message) == [ok |-> FALSE, message |-> message]

(***************************************************************************)
(* src/services/geminiService.ts                                           *)
(***************************************************************************)
\* generateQuestions, from the reply on: JSON.parse, then questionsData.map.
MapQuestion(q) ==
    [id |-> q.id,
     questionText |-> q.questionText,
     fullQuestionPrompt |-> q,
     answer |-> <<>>,
     options |-> IF q.options = None THEN <<>> ELSE q.options[1],
     selectedOptions |-> <<>>]

generateQuestions(reply) ==
    IF reply.kind = "rejected" \/ reply.json = None
    THEN Fail("Failed to generate questions")
    ELSE LET questionsData == reply.json[1]
         IN  IF questionsData.type # "array"
                \/ \E i \in 1..Len(questionsData.items) :
                       questionsData.items[i].type = "null"
             THEN Fail("Failed to generate questions")
             ELSE Ok([i \in 1..Len(questionsData.items) |->
                        MapQuestion(questionsData.items[i])])

\* The field of a parsed value; undefined (None) when the value has none.
Field(data, name) ==
    IF data.type = "object" /\ name \in DOMAIN data THEN data[name] ELSE None

\* A result object that carries no output type.
ResultOf_NoOutputType(data) ==
    [enhancedPrompt |-> Field(data, "enhancedPrompt"),
     negativePrompt |-> Field(data, "negativePrompt"),
     suggestions |-> IF Field(data, "suggestions") = None
                     THEN <<>>
                     ELSE Field(data, "suggestions")[1],
     outputTypeUsed |-> ""]

\* The result object the five result-producing functions build from the parsed
\* reply: { enhancedPrompt, negativePrompt, suggestions || [], outputTypeUsed }.
ResultOf(data) ==
    [enhancedPrompt |-> Field(data, "enhancedPrompt"),
     negativePrompt |-> Field(data, "negativePrompt"),
     suggestions |-> IF Field(data, "suggestions") = None
                     THEN <<>>
                     ELSE Field(data, "suggestions")[1],
     outputTypeUsed |-> RASTER_PROMPT]

\* A tail that hands the caught error on in the Error it throws.
ParseResult_WithDetail(reply, message) ==
    IF reply.kind = "rejected" \/ reply.json = None \/ reply.json[1].type = "null"
    THEN Fail(message \o ": " \o ThrownBy(reply))
    ELSE Ok(ResultOf(reply.json[1]))

\* A tail that throws when the parsed reply has no suggestions.
ParseResult_RequiresSuggestions(reply, message) ==
    IF reply.kind = "rejected" \/ reply.json = None \/ reply.json[1].type = "null"
    THEN Fail(message)
    ELSE IF Field(reply.json[1], "suggestions") = None
    THEN Fail(message)
    ELSE Ok(ResultOf(reply.json[1]))

\* The common tail of those five functions; `message` is the Error each throws.
ParseResult(reply, message) ==
    IF reply.kind = "rejected" \/ reply.json = None \/ reply.json[1].type = "null"
    THEN Fail(message)
    ELSE Ok(ResultOf(reply.json[1]))

generateEnhancedPrompt(reply) ==
    ParseResult(reply, "Failed to generate enhanced prompt")

generateImageDescription(reply) ==
    IF reply.kind = "rejected"
    THEN Fail("Failed to generate image description")
    ELSE Ok(reply.text)

generateMagicPrompt(reply) ==
    ParseResult(reply, "Failed to generate magic prompt")

generateCopyImagePrompt(reply) ==
    ParseResult(reply, "Failed to generate copy image prompt")

generateStyleInfluencePrompt(reply) ==
    ParseResult(reply, "Failed to generate style influence prompt")

refineEditedPrompt(reply) ==
    ParseResult(reply, "Failed to refine edited prompt")

\* A dimensionsText that names the ratio also when it is 'auto'.
MagicDimensionsText_AutoNamed(aspectRatio, customWidth, customHeight) ==
    IF aspectRatio = "custom"
    THEN "Dimensions: " \o TextToString(customWidth) \o "x"
             \o TextToString(customHeight) \o "px"
    ELSE "Aspect ratio: " \o aspectRatio

\* dimensionsText of generateMagicPrompt
MagicDimensionsText(aspectRatio, customWidth, customHeight) ==
    IF aspectRatio # "auto"
    THEN IF aspectRatio = "custom"
         THEN "Dimensions: " \o TextToString(customWidth) \o "x"
                  \o TextToString(customHeight) \o "px"
         ELSE "Aspect ratio: " \o aspectRatio
    ELSE ""

\* dimensionsText of generateStyleInfluencePrompt
StyleDimensionsText(aspectRatio, customWidth, customHeight) ==
    IF aspectRatio # "" /\ aspectRatio # "auto"
    THEN IF aspectRatio = "custom" /\ customWidth # <<>> /\ customHeight # <<>>
         THEN "Dimensions: " \o TextToString(customWidth) \o "x"
                  \o TextToString(customHeight) \o "px"
         ELSE "Aspect ratio: " \o aspectRatio
    ELSE ""

\* The payload segments each function hands to model.generateContent.
TextPart(op, idea, dimensionsText) ==
    [kind |-> "text", op |-> op, idea |-> idea, dimensionsText |-> dimensionsText]

ImagePart(role, image) ==
    [kind |-> "inlineData", role |-> role, mimeType |-> image.mimeType,
     data |-> image.base64]

OptionalImagePart(role, image) ==
    IF image = None THEN <<>> ELSE << ImagePart(role, image[1]) >>

QuestionsParts(idea) == << TextPart("generateQuestions", idea, "") >>

EnhancedParts(idea, subjectImage) ==
    << TextPart("generateEnhancedPrompt", idea, "") >>
        \o OptionalImagePart("subject", subjectImage)

DescriptionParts(image) ==
    << TextPart("generateImageDescription", <<>>, ""), ImagePart("subject", image) >>

MagicParts(idea, aspectRatio, customWidth, customHeight, subjectImage) ==
    << TextPart("generateMagicPrompt", idea,
                MagicDimensionsText(aspectRatio, customWidth, customHeight)) >>
        \o OptionalImagePart("subject", subjectImage)

CopyParts(image) ==
    << TextPart("generateCopyImagePrompt", <<>>, ""), ImagePart("subject", image) >>

\* A builder that puts the subject image ahead of the style image.
StyleParts_SubjectFirst(idea, styleImage, subjectImage, aspectRatio, customWidth, customHeight) ==
    << TextPart("generateStyleInfluencePrompt", idea,
                StyleDimensionsText(aspectRatio, customWidth, customHeight)) >>
        \o OptionalImagePart("subject", subjectImage)
        \o << ImagePart("style", styleImage) >>

StyleParts(idea, styleImage, subjectImage, aspectRatio, customWidth, customHeight) ==
    << TextPart("generateStyleInfluencePrompt", idea,
                StyleDimensionsText(aspectRatio, customWidth, customHeight)),
       ImagePart("style", styleImage) >>
        \o OptionalImagePart("subject", subjectImage)

RefineParts(editedPrompt, subjectImage) ==
    << TextPart("refineEditedPrompt", editedPrompt, "") >>
        \o OptionalImagePart("subject", subjectImage)

(***************************************************************************)
(* src/App.tsx: state, render gating                                       *)
(***************************************************************************)
envVars == << env, mounted, apiKeyExists >>

imageVars == << subjectReferenceImageFile, subjectReferenceImagePreview,
                styleReferenceImageFile, styleReferenceImagePreview >>

dimensionVars == << outputAspectRatio, outputCustomWidth, outputCustomHeight >>

editVars == << isEditingEnhancedPrompt, editedEnhancedPromptText >>

\* A JavaScript string used as a condition: undefined and "" are falsy.
Truthy(s) == s # None /\ s[1] # ""

\* geminiService.ts throws while the module loads when no key is configured; App
\* imports it, so the component then never mounts.
ServiceLoads == Truthy(env.API_KEY) \/ Truthy(env.GEMINI_API_KEY)

\* The condition of the mount effect.
ApiKeyValid ==
    /\ Truthy(env.API_KEY)
    /\ env.API_KEY[1] # "MISSING_API_KEY"
    /\ Len(env.API_KEY[1]) > 10

\* The history record of a handler step: the handler, what it did, the
\* appState in which the handler was invoked, and whether a start-over ran
\* between the invocation and this step.
Event(op, outcome, from) ==
    [op |-> op, outcome |-> outcome, from |-> from, overtaken |-> FALSE]

\* The history record of a continuation of the suspended invocation r.
Continued(r, outcome) ==
    [op |-> r.op, outcome |-> outcome, from |-> r.from, overtaken |-> r.overtaken]

\* The history record of a questions reply of the wrong length: as Continued,
\* with the number of questions received.
Miscounted(r, count) ==
    [op |-> r.op, outcome |-> "countMismatch", from |-> r.from,
     overtaken |-> r.overtaken, count |-> count]

\* The history record of a failed call: as Continued, with the reply and the
\* error the service function logged.
Failed(r, reply) ==
    [op |-> r.op, outcome |-> "failure", from |-> r.from,
     overtaken |-> r.overtaken, logged |-> ThrownBy(reply), reply |-> reply]

\* The history record of a call that succeeded: as Continued, with the reply.
Succeeded(r, reply) ==
    [op |-> r.op, outcome |-> "success", from |-> r.from,
     overtaken |-> r.overtaken, reply |-> reply]

\* message || fallback
OrElse(message, fallback) == IF message = "" THEN fallback ELSE message

\* An idea is missing when the text is empty without looking at white space.
IdeaMissing_NoTrim == basicPrompt = <<>>

\* !basicPrompt.trim()
IdeaMissing == Trim(basicPrompt) = <<>>

\* A style submission that asks for the idea whatever the subject image.
SubjectMissing_IdeaOnly == IdeaMissing

\* !basicPrompt.trim() && !subjectReferenceImageFile
SubjectMissing == IdeaMissing /\ subjectReferenceImageFile = None

isCustomDimensionsInvalid ==
    IF outputAspectRatio = "custom"
    THEN \/ Trim(outputCustomWidth) = <<>>
         \/ Trim(outputCustomHeight) = <<>>
         \/ LET width == ParseInt(outputCustomWidth, 10)
                height == ParseInt(outputCustomHeight, 10)
            IN  IsNaN(width) \/ LeqZero(width) \/ IsNaN(height) \/ LeqZero(height)
    ELSE FALSE

\* The check of custom dimensions inside handleMagicPromptSubmit and
\* handleStyleInfluenceSubmit.
CustomDimensionsRejected ==
    /\ outputAspectRatio = "custom"
    /\ \/ Trim(outputCustomWidth) = <<>>
       \/ Trim(outputCustomHeight) = <<>>
       \/ LeqZero(ParseInt(outputCustomWidth, 0))
       \/ LeqZero(ParseInt(outputCustomHeight, 0))

\* What renderContent returns: the configuration notice, or the screen of the
\* current appState.  Rendering the results screen in edit mode evaluates
\* editedEnhancedPromptText.trim(), which throws when the draft is undefined.
\* A renderContent without the branch for GENERATING_QUESTIONS, which then
\* shows the initial form.
Screen_NoQuestionsSpinner ==
    IF ~mounted THEN "NOT_MOUNTED"
    ELSE IF ~apiKeyExists /\ appState # "ERROR" THEN "API_CONFIG_NOTICE"
    ELSE IF /\ appState = "SHOWING_RESULTS"
            /\ enhancedResult # None
            /\ isEditingEnhancedPrompt
            /\ editedEnhancedPromptText = None
    THEN "RENDER_THROWS"
    ELSE IF appState = "GENERATING_QUESTIONS" THEN "INITIAL"
    ELSE appState

Screen ==
    IF ~mounted THEN "NOT_MOUNTED"
    ELSE IF ~apiKeyExists /\ appState # "ERROR" THEN "API_CONFIG_NOTICE"
    ELSE IF /\ appState = "SHOWING_RESULTS"
            /\ enhancedResult # None
            /\ isEditingEnhancedPrompt
            /\ editedEnhancedPromptText = None
    THEN "RENDER_THROWS"
    ELSE appState

\* Controls with a retry on the error screen: the questions button is there too.
Clickable_RetryOnError(control) ==
    CASE control \in {"basicPrompt", "uploadSubject", "uploadStyle", "aspectRatio"} ->
            Screen = "INITIAL"
      [] control = "clearSubject" ->
            Screen = "INITIAL" /\ subjectReferenceImagePreview # None
      [] control = "clearStyle" ->
            Screen = "INITIAL" /\ styleReferenceImagePreview # None
      [] control \in {"generateDescription", "copyImage"} ->
            /\ Screen = "INITIAL"
            /\ subjectReferenceImagePreview # None
            /\ subjectReferenceImageFile # None
      [] control = "customDimensions" ->
            Screen = "INITIAL" /\ outputAspectRatio = "custom"
      [] control = "questions" ->
            Screen \in {"INITIAL", "ERROR"} /\ Trim(basicPrompt) # <<>>
      [] control = "magicPrompt" ->
            /\ Screen = "INITIAL"
            /\ ~(Trim(basicPrompt) = <<>> \/ isCustomDimensionsInvalid)
      [] control = "styleInfluence" ->
            /\ Screen = "INITIAL"
            /\ ~ \/ (Trim(basicPrompt) = <<>> /\ subjectReferenceImageFile = None)
                 \/ styleReferenceImageFile = None
                 \/ isCustomDimensionsInvalid
      [] control \in {"answer", "enhance"} ->
            Screen = "ASKING_QUESTIONS"
      [] control = "startOver" ->
            \/ Screen \in {"ASKING_QUESTIONS", "ERROR"}
            \/ Screen = "SHOWING_RESULTS" /\ enhancedResult # None
      [] control = "edit" ->
            /\ Screen = "SHOWING_RESULTS"
            /\ enhancedResult # None
            /\ ~isEditingEnhancedPrompt
      [] control \in {"editDraft", "cancelEdit"} ->
            /\ Screen = "SHOWING_RESULTS"
            /\ enhancedResult # None
            /\ isEditingEnhancedPrompt
      [] control = "submitRefined" ->
            /\ Screen = "SHOWING_RESULTS"
            /\ enhancedResult # None
            /\ isEditingEnhancedPrompt
            /\ Trim(editedEnhancedPromptText[1]) # <<>>
      [] OTHER -> FALSE

\* The controls renderContent puts on the screen and does not disable.
Clickable(control) ==
    CASE control \in {"basicPrompt", "uploadSubject", "uploadStyle", "aspectRatio"} ->
            Screen = "INITIAL"
      [] control = "clearSubject" ->
            Screen = "INITIAL" /\ subjectReferenceImagePreview # None
      [] control = "clearStyle" ->
            Screen = "INITIAL" /\ styleReferenceImagePreview # None
      [] control \in {"generateDescription", "copyImage"} ->
            /\ Screen = "INITIAL"
            /\ subjectReferenceImagePreview # None
            /\ subjectReferenceImageFile # None
      [] control = "customDimensions" ->
            Screen = "INITIAL" /\ outputAspectRatio = "custom"
      [] control = "questions" ->
            Screen = "INITIAL" /\ Trim(basicPrompt) # <<>>
      [] control = "magicPrompt" ->
            /\ Screen = "INITIAL"
            /\ ~(Trim(basicPrompt) = <<>> \/ isCustomDimensionsInvalid)
      [] control = "styleInfluence" ->
            /\ Screen = "INITIAL"
            /\ ~ \/ (Trim(basicPrompt) = <<>> /\ subjectReferenceImageFile = None)
                 \/ styleReferenceImageFile = None
                 \/ isCustomDimensionsInvalid
      [] control \in {"answer", "enhance"} ->
            Screen = "ASKING_QUESTIONS"
      [] control = "startOver" ->
            \/ Screen \in {"ASKING_QUESTIONS", "ERROR"}
            \/ Screen = "SHOWING_RESULTS" /\ enhancedResult # None
      [] control = "edit" ->
            /\ Screen = "SHOWING_RESULTS"
            /\ enhancedResult # None
            /\ ~isEditingEnhancedPrompt
      [] control \in {"editDraft", "cancelEdit"} ->
            /\ Screen = "SHOWING_RESULTS"
            /\ enhancedResult # None
            /\ isEditingEnhancedPrompt
      [] control = "submitRefined" ->
            /\ Screen = "SHOWING_RESULTS"
            /\ enhancedResult # None
            /\ isEditingEnhancedPrompt
            /\ Trim(editedEnhancedPromptText[1]) # <<>>
      [] OTHER -> FALSE

(***************************************************************************)
(* Initial state and the mount effect                                      *)
(***************************************************************************)
Key(text) == [API_KEY |-> text, GEMINI_API_KEY |-> None]

Environments ==
    { Key(Some("AIzaSy-valid-key-0123")),
      Key(Some("MISSING_API_KEY")),
      Key(Some("short")),
      [API_KEY |-> None, GEMINI_API_KEY |-> Some("AIzaSy-valid-key-0123")],
      Key(None) }

InitState(e) ==
    /\ env = e
    /\ mounted = FALSE
    /\ appState = "INITIAL"
    /\ basicPrompt = <<>>
    /\ questionAnswers = <<>>
    /\ enhancedResult = None
    /\ error = None
    /\ apiKeyExists = FALSE
    /\ subjectReferenceImageFile = None
    /\ subjectReferenceImagePreview = None
    /\ styleReferenceImageFile = None
    /\ styleReferenceImagePreview = None
    /\ outputAspectRatio = "auto"
    /\ outputCustomWidth = <<>>
    /\ outputCustomHeight = <<>>
    /\ isEditingEnhancedPrompt = FALSE
    /\ editedEnhancedPromptText = Some(<<>>)
    /\ requests = <<>>
    /\ previewReads = <<>>
    /\ lastEvent = Event("init", "", "INITIAL")

Init == \E e \in Environments : InitState(e)

\* The mount effect, were an invalid key to switch to the error screen without
\* a message.
MountEffect_NoMessage ==
    /\ ~mounted
    /\ ServiceLoads
    /\ mounted' = TRUE
    /\ IF ApiKeyValid
       THEN /\ apiKeyExists' = TRUE
            /\ UNCHANGED << error, appState >>
       ELSE /\ appState' = "ERROR"
            /\ UNCHANGED << error, apiKeyExists >>
    /\ lastEvent' = Event("useEffect", IF ApiKeyValid THEN "keyValid" ELSE "keyInvalid",
                          appState)
    /\ UNCHANGED << env, basicPrompt, questionAnswers, enhancedResult, imageVars,
                    dimensionVars, editVars, requests, previewReads >>

MountEffect ==
    /\ ~mounted
    /\ ServiceLoads
    /\ mounted' = TRUE
    /\ IF ApiKeyValid
       THEN /\ apiKeyExists' = TRUE
            /\ UNCHANGED << error, appState >>
       ELSE /\ error' = Some("Klucz API Gemini nie jest skonfigurowany lub jest nieprawidlowy.")
            /\ appState' = "ERROR"
            /\ UNCHANGED apiKeyExists
    /\ lastEvent' = Event("useEffect", IF ApiKeyValid THEN "keyValid" ELSE "keyInvalid",
                          appState)
    /\ UNCHANGED << env, basicPrompt, questionAnswers, enhancedResult, imageVars,
                    dimensionVars, editVars, requests, previewReads >>

(***************************************************************************)
(* Synchronous handlers                                                    *)
(***************************************************************************)
\* onChange of the basic idea textarea
setBasicPrompt(text) ==
    /\ basicPrompt' = text
    /\ lastEvent' = Event("setBasicPrompt", "", appState)
    /\ UNCHANGED << envVars, appState, questionAnswers, enhancedResult, error,
                    imageVars, dimensionVars, editVars, requests, previewReads >>

\* onChange of the aspect-ratio select
setOutputAspectRatio(value) ==
    /\ outputAspectRatio' = value
    /\ lastEvent' = Event("setOutputAspectRatio", "", appState)
    /\ UNCHANGED << envVars, appState, basicPrompt, questionAnswers, enhancedResult,
                    error, imageVars, outputCustomWidth, outputCustomHeight, editVars,
                    requests, previewReads >>

\* onChange of the custom width input
setOutputCustomWidth(value) ==
    /\ outputCustomWidth' = value
    /\ lastEvent' = Event("setOutputCustomWidth", "", appState)
    /\ UNCHANGED << envVars, appState, basicPrompt, questionAnswers, enhancedResult,
                    error, imageVars, outputAspectRatio, outputCustomHeight, editVars,
                    requests, previewReads >>

\* onChange of the custom height input
setOutputCustomHeight(value) ==
    /\ outputCustomHeight' = value
    /\ lastEvent' = Event("setOutputCustomHeight", "", appState)
    /\ UNCHANGED << envVars, appState, basicPrompt, questionAnswers, enhancedResult,
                    error, imageVars, outputAspectRatio, outputCustomWidth, editVars,
                    requests, previewReads >>

\* A draft editor that writes the text into the held result as it is typed.
setEditedEnhancedPromptText_Commits(text) ==
    /\ editedEnhancedPromptText' = Some(text)
    /\ enhancedResult' =
           IF enhancedResult = None THEN None
           ELSE Some([enhancedResult[1] EXCEPT !.enhancedPrompt = Some(text)])
    /\ lastEvent' = Event("setEditedEnhancedPromptText", "", appState)
    /\ UNCHANGED << envVars, appState, basicPrompt, questionAnswers,
                    error, imageVars, dimensionVars, isEditingEnhancedPrompt,
                    requests, previewReads >>

\* onChange of the edit-draft textarea
setEditedEnhancedPromptText(text) ==
    /\ editedEnhancedPromptText' = Some(text)
    /\ lastEvent' = Event("setEditedEnhancedPromptText", "", appState)
    /\ UNCHANGED << envVars, appState, basicPrompt, questionAnswers, enhancedResult,
                    error, imageVars, dimensionVars, isEditingEnhancedPrompt,
                    requests, previewReads >>

\* The two checks of handleImageUpload, in the code's order.
\* An upload check that turns away a file of exactly the maximum size.
UploadVerdict_Strict(file) ==
    IF file.type \notin ALLOWED_IMAGE_TYPES THEN "format"
    ELSE IF file.size >= MAX_IMAGE_SIZE_MB * 1024 * 1024 THEN "size"
    ELSE "accepted"

UploadVerdict(file) ==
    IF file.type \notin ALLOWED_IMAGE_TYPES THEN "format"
    ELSE IF file.size > MAX_IMAGE_SIZE_MB * 1024 * 1024 THEN "size"
    ELSE "accepted"

FormatMessage(file) ==
    "Nieprawidlowy format pliku (" \o file.name
        \o "). Dozwolone formaty: JPG, PNG, WEBP."

SizeMessage(file) ==
    "Plik " \o file.name \o " jest zbyt duzy. Maksymalny rozmiar to "
        \o ToString(MAX_IMAGE_SIZE_MB) \o "MB."

\* The history record of an upload: the file, the slot, and whether the slot
\* held a file when the upload came.
UploadEvent(file, imageType) ==
    [op |-> "handleImageUpload", outcome |-> UploadVerdict(file), from |-> appState,
     overtaken |-> FALSE, file |-> file, imageType |-> imageType,
     held |-> IF imageType = "subject"
              THEN subjectReferenceImageFile # None
              ELSE styleReferenceImageFile # None]

handleImageUpload(file, imageType) ==
    /\ lastEvent' = UploadEvent(file, imageType)
    /\ IF UploadVerdict(file) # "accepted"
       THEN /\ error' = Some(IF UploadVerdict(file) = "format"
                             THEN FormatMessage(file)
                             ELSE SizeMessage(file))
            /\ IF imageType = "subject"
               THEN /\ subjectReferenceImageFile' = None
                    /\ subjectReferenceImagePreview' = None
                    /\ UNCHANGED << styleReferenceImageFile, styleReferenceImagePreview >>
               ELSE /\ styleReferenceImageFile' = None
                    /\ styleReferenceImagePreview' = None
                    /\ UNCHANGED << subjectReferenceImageFile,
                                    subjectReferenceImagePreview >>
            /\ UNCHANGED previewReads
       ELSE /\ error' = None
            /\ previewReads' =
                   Append(previewReads, [file |-> file, imageType |-> imageType])
            /\ UNCHANGED imageVars
    /\ UNCHANGED << envVars, appState, basicPrompt, questionAnswers, enhancedResult,
                    dimensionVars, editVars, requests >>

\* The sequence s without its i-th element.
RemoveAt(s, i) == SubSeq(s, 1, i - 1) \o SubSeq(s, i + 1, Len(s))

\* reader.onloadend of handleImageUpload: it fires after a successful read and
\* after a failed one, and then reader.result is null.
PreviewLoadEnd(i, readOk) ==
    /\ i \in 1..Len(previewReads)
    /\ LET read == previewReads[i]
           result == IF readOk THEN Some(DataURL(read.file)) ELSE None
       IN  /\ IF read.imageType = "subject"
              THEN /\ subjectReferenceImageFile' = Some(read.file)
                   /\ subjectReferenceImagePreview' = result
                   /\ UNCHANGED << styleReferenceImageFile,
                                   styleReferenceImagePreview >>
              ELSE /\ styleReferenceImageFile' = Some(read.file)
                   /\ styleReferenceImagePreview' = result
                   /\ UNCHANGED << subjectReferenceImageFile,
                                   subjectReferenceImagePreview >>
           /\ lastEvent' = Event("onloadend", read.imageType, appState)
    /\ previewReads' = RemoveAt(previewReads, i)
    /\ UNCHANGED << envVars, appState, basicPrompt, questionAnswers, enhancedResult,
                    error, dimensionVars, editVars, requests >>

\* The history record of the clearing of a slot: the slot, and the message
\* that was shown when it was cleared.
ClearEvent(imageType) ==
    [op |-> "clearReferenceImage", outcome |-> imageType, from |-> appState,
     overtaken |-> FALSE, shown |-> error]

\* A clearing that empties both slots.
clearReferenceImage_BothSlots(imageType) ==
    /\ subjectReferenceImageFile' = None
    /\ subjectReferenceImagePreview' = None
    /\ styleReferenceImageFile' = None
    /\ styleReferenceImagePreview' = None
    /\ error' = None
    /\ lastEvent' = ClearEvent(imageType)
    /\ UNCHANGED << envVars, appState, basicPrompt, questionAnswers, enhancedResult,
                    dimensionVars, editVars, requests, previewReads >>

clearReferenceImage(imageType) ==
    /\ IF imageType = "subject"
       THEN /\ subjectReferenceImageFile' = None
            /\ subjectReferenceImagePreview' = None
            /\ UNCHANGED << styleReferenceImageFile, styleReferenceImagePreview >>
       ELSE /\ styleReferenceImageFile' = None
            /\ styleReferenceImagePreview' = None
            /\ UNCHANGED << subjectReferenceImageFile, subjectReferenceImagePreview >>
    /\ error' = None
    /\ lastEvent' = ClearEvent(imageType)
    /\ UNCHANGED << envVars, appState, basicPrompt, questionAnswers, enhancedResult,
                    dimensionVars, editVars, requests, previewReads >>

\* Array.prototype.includes
Includes(s, x) == \E i \in 1..Len(s) : s[i] = x

\* Array.prototype.filter(opt => opt !== x)
RECURSIVE Without(_, _)
Without(s, x) ==
    IF s = <<>> THEN <<>>
    ELSE IF Head(s) = x THEN Without(Tail(s), x)
    ELSE <<Head(s)>> \o Without(Tail(s), x)

\* An answer change that adds the option without looking for it.
ChangedAnswer_AlwaysPush(qa, answer, selectedOption, isChecked) ==
    LET newSelectedOptions ==
            IF selectedOption # None /\ isChecked # None
            THEN IF isChecked[1]
                 THEN Append(qa.selectedOptions, selectedOption[1])
                 ELSE Without(qa.selectedOptions, selectedOption[1])
            ELSE qa.selectedOptions
    IN  [qa EXCEPT !.answer = IF answer # None THEN answer[1] ELSE qa.answer,
                   !.selectedOptions = newSelectedOptions]

\* An answer change that leaves the options as they are when the box is
\* unchecked.
ChangedAnswer_KeepsOnUncheck(qa, answer, selectedOption, isChecked) ==
    LET newSelectedOptions ==
            IF selectedOption # None /\ isChecked # None
            THEN IF isChecked[1]
                 THEN IF ~Includes(qa.selectedOptions, selectedOption[1])
                      THEN Append(qa.selectedOptions, selectedOption[1])
                      ELSE qa.selectedOptions
                 ELSE qa.selectedOptions
            ELSE qa.selectedOptions
    IN  [qa EXCEPT !.answer = IF answer # None THEN answer[1] ELSE qa.answer,
                   !.selectedOptions = newSelectedOptions]

\* The entry handleAnswerChange returns for a question whose id matches.  The
\* optional arguments are None when the caller leaves them undefined.
ChangedAnswer(qa, answer, selectedOption, isChecked) ==
    LET newSelectedOptions ==
            IF selectedOption # None /\ isChecked # None
            THEN IF isChecked[1]
                 THEN IF ~Includes(qa.selectedOptions, selectedOption[1])
                      THEN Append(qa.selectedOptions, selectedOption[1])
                      ELSE qa.selectedOptions
                 ELSE Without(qa.selectedOptions, selectedOption[1])
            ELSE qa.selectedOptions
    IN  [qa EXCEPT !.answer = IF answer # None THEN answer[1] ELSE qa.answer,
                   !.selectedOptions = newSelectedOptions]

\* The history record of an answer change: the arguments, the questions as
\* they were when the change came, and the same of the answer change right
\* before it, if the step before was one.
AnswerEvent(questionId, answer, selectedOption, isChecked) ==
    [op |-> "handleAnswerChange", outcome |-> "", from |-> appState,
     overtaken |-> FALSE, questionId |-> questionId, answer |-> answer,
     selectedOption |-> selectedOption, isChecked |-> isChecked,
     before |-> questionAnswers,
     previous |-> IF lastEvent.op = "handleAnswerChange"
                  THEN Some([questionId |-> lastEvent.questionId,
                             selectedOption |-> lastEvent.selectedOption,
                             isChecked |-> lastEvent.isChecked,
                             before |-> lastEvent.before])
                  ELSE None]

handleAnswerChange(questionId, answer, selectedOption, isChecked) ==
    /\ questionAnswers' =
           [i \in 1..Len(questionAnswers) |->
               IF questionAnswers[i].id = questionId
               THEN ChangedAnswer(questionAnswers[i], answer, selectedOption, isChecked)
               ELSE questionAnswers[i]]
    /\ lastEvent' = AnswerEvent(questionId, answer, selectedOption, isChecked)
    /\ UNCHANGED << envVars, appState, basicPrompt, enhancedResult, error, imageVars,
                    dimensionVars, editVars, requests, previewReads >>

handleEditEnhancedPrompt ==
    /\ IF enhancedResult # None
       THEN /\ editedEnhancedPromptText' = enhancedResult[1].enhancedPrompt
            /\ isEditingEnhancedPrompt' = TRUE
            /\ error' = None
       ELSE UNCHANGED << editVars, error >>
    /\ lastEvent' = Event("handleEditEnhancedPrompt", "", appState)
    /\ UNCHANGED << envVars, appState, basicPrompt, questionAnswers, enhancedResult,
                    imageVars, dimensionVars, requests, previewReads >>

handleCancelEditEnhancedPrompt ==
    /\ isEditingEnhancedPrompt' = FALSE
    /\ editedEnhancedPromptText' = Some(<<>>)
    /\ lastEvent' = Event("handleCancelEditEnhancedPrompt", "", appState)
    /\ UNCHANGED << envVars, appState, basicPrompt, questionAnswers, enhancedResult,
                    error, imageVars, dimensionVars, requests, previewReads >>

\* Ghost mark on the handler invocations a start-over overtakes: the code keeps
\* no such mark, the suspended handlers run on unchanged.
Overtaken(rs) == [i \in 1..Len(rs) |-> [rs[i] EXCEPT !.overtaken = TRUE]]

\* A start-over that leaves the questions and their answers as they were.
handleStartOver_KeepsQuestions ==
    /\ appState' = "INITIAL"
    /\ basicPrompt' = <<>>
    /\ enhancedResult' = None
    /\ error' = None
    /\ subjectReferenceImageFile' = None
    /\ subjectReferenceImagePreview' = None
    /\ styleReferenceImageFile' = None
    /\ styleReferenceImagePreview' = None
    /\ outputAspectRatio' = "auto"
    /\ outputCustomWidth' = <<>>
    /\ outputCustomHeight' = <<>>
    /\ isEditingEnhancedPrompt' = FALSE
    /\ editedEnhancedPromptText' = Some(<<>>)
    /\ requests' = Overtaken(requests)
    /\ lastEvent' = Event("handleStartOver", "", appState)
    /\ UNCHANGED << envVars, questionAnswers, previewReads >>

\* A start-over that leaves the dimension selection as it was.
handleStartOver_KeepsDimensions ==
    /\ appState' = "INITIAL"
    /\ basicPrompt' = <<>>
    /\ questionAnswers' = <<>>
    /\ enhancedResult' = None
    /\ error' = None
    /\ subjectReferenceImageFile' = None
    /\ subjectReferenceImagePreview' = None
    /\ styleReferenceImageFile' = None
    /\ styleReferenceImagePreview' = None
    /\ isEditingEnhancedPrompt' = FALSE
    /\ editedEnhancedPromptText' = Some(<<>>)
    /\ requests' = Overtaken(requests)
    /\ lastEvent' = Event("handleStartOver", "", appState)
    /\ UNCHANGED << envVars, dimensionVars, previewReads >>

handleStartOver ==
    /\ appState' = "INITIAL"
    /\ basicPrompt' = <<>>
    /\ questionAnswers' = <<>>
    /\ enhancedResult' = None
    /\ error' = None
    /\ subjectReferenceImageFile' = None
    /\ subjectReferenceImagePreview' = None
    /\ styleReferenceImageFile' = None
    /\ styleReferenceImagePreview' = None
    /\ outputAspectRatio' = "auto"
    /\ outputCustomWidth' = <<>>
    /\ outputCustomHeight' = <<>>
    /\ isEditingEnhancedPrompt' = FALSE
    /\ editedEnhancedPromptText' = Some(<<>>)
    /\ requests' = Overtaken(requests)
    /\ lastEvent' = Event("handleStartOver", "", appState)
    /\ UNCHANGED << envVars, previewReads >>

(***************************************************************************)
(* Asynchronous handlers.  Each is a first step, run at the click up to    *)
(* the first await, and one continuation per await: the end of a           *)
(* FileReader read (onload / onerror) and the arrival of the model's       *)
(* reply.  A continuation reads the values its closure captured at the     *)
(* click, kept in the request record.                                      *)
(***************************************************************************)
Request(op, stage, parts) ==
    [op |-> op, stage |-> stage, from |-> appState,
     basicPrompt |-> basicPrompt,
     questionAnswers |-> questionAnswers,
     subjectFile |-> subjectReferenceImageFile,
     styleFile |-> styleReferenceImageFile,
     aspectRatio |-> outputAspectRatio,
     customWidth |-> outputCustomWidth,
     customHeight |-> outputCustomHeight,
     editedText |-> editedEnhancedPromptText,
     subjectImage |-> None,
     parts |-> parts,
     overtaken |-> FALSE]

\* The request i at the given await of the given handler.
Suspended(i, op, stage) ==
    /\ i \in 1..Len(requests)
    /\ requests[i].op = op
    /\ requests[i].stage = stage

\* The handler moves on to its next await.
Proceed(i, stage, subjectImage, parts) ==
    requests' = [requests EXCEPT ![i].stage = stage,
                                 ![i].subjectImage = subjectImage,
                                 ![i].parts = parts]

\* The handler returns.
Return(i) == requests' = RemoveAt(requests, i)

\* The width and height the caller passes on to the builder.
CurrentWidth(aspectRatio, customWidth) ==
    IF aspectRatio = IPHONE_14_WALLPAPER_OPTION_VALUE
    THEN <<"1", "1", "7", "0">>
    ELSE customWidth

CurrentHeight(aspectRatio, customHeight) ==
    IF aspectRatio = IPHONE_14_WALLPAPER_OPTION_VALUE
    THEN <<"2", "5", "3", "2">>
    ELSE customHeight

-----------------------------------------------------------------------------
handleGenerateDescriptionFromImage ==
    /\ IF subjectReferenceImageFile = None
       THEN /\ error' = Some("Najpierw przeslij obraz (Temat/Obiekt), aby wygenerowac jego opis.")
            /\ lastEvent' = Event("handleGenerateDescriptionFromImage", "invalid", appState)
            /\ UNCHANGED << appState, requests >>
       ELSE /\ error' = None
            /\ appState' = "GENERATING_DESCRIPTION"
            /\ requests' = Append(requests,
                   Request("handleGenerateDescriptionFromImage", "readSubject", <<>>))
            /\ lastEvent' = Event("handleGenerateDescriptionFromImage", "started", appState)
    /\ UNCHANGED << envVars, basicPrompt, questionAnswers, enhancedResult, imageVars,
                    dimensionVars, editVars, previewReads >>

handleGenerateDescriptionFromImage_read(i, readOk) ==
    /\ Suspended(i, "handleGenerateDescriptionFromImage", "readSubject")
    /\ LET r == requests[i]
       IN  IF readOk
           THEN /\ Proceed(i, "call", None,
                           DescriptionParts(ReferenceImage(r.subjectFile[1])))
                /\ lastEvent' = Continued(r, "readOk")
                /\ UNCHANGED << error, appState >>
           ELSE /\ error' = Some("Nie udalo sie wygenerowac opisu obrazu. Sprawdz konsole.")
                /\ appState' = "INITIAL"
                /\ Return(i)
                /\ lastEvent' = Continued(r, "readError")
    /\ UNCHANGED << envVars, basicPrompt, questionAnswers, enhancedResult, imageVars,
                    dimensionVars, editVars, previewReads >>

\* handleGenerateDescriptionFromImage's continuation, were it to discard the
\* described image once the description has replaced the idea.
handleGenerateDescriptionFromImage_reply_DropsImage(i, reply) ==
    /\ Suspended(i, "handleGenerateDescriptionFromImage", "call")
    /\ LET r == requests[i]
           description == generateImageDescription(reply)
       IN  IF description.ok
           THEN /\ basicPrompt' = description.value
                /\ appState' = "INITIAL"
                /\ error' = None
                /\ subjectReferenceImageFile' = None
                /\ subjectReferenceImagePreview' = None
                /\ lastEvent' = Succeeded(r, reply)
           ELSE /\ error' = Some(OrElse(description.message,
                                 "Nie udalo sie wygenerowac opisu obrazu. Sprawdz konsole."))
                /\ appState' = "INITIAL"
                /\ lastEvent' = Failed(r, reply)
                /\ UNCHANGED << basicPrompt, subjectReferenceImageFile,
                                subjectReferenceImagePreview >>
    /\ Return(i)
    /\ UNCHANGED << envVars, questionAnswers, enhancedResult,
                    styleReferenceImageFile, styleReferenceImagePreview,
                    dimensionVars, editVars, previewReads >>

handleGenerateDescriptionFromImage_reply(i, reply) ==
    /\ Suspended(i, "handleGenerateDescriptionFromImage", "call")
    /\ LET r == requests[i]
           description == generateImageDescription(reply)
       IN  IF description.ok
           THEN /\ basicPrompt' = description.value
                /\ appState' = "INITIAL"
                /\ error' = None
                /\ lastEvent' = Succeeded(r, reply)
           ELSE /\ error' = Some(OrElse(description.message,
                                 "Nie udalo sie wygenerowac opisu obrazu. Sprawdz konsole."))
                /\ appState' = "INITIAL"
                /\ lastEvent' = Failed(r, reply)
                /\ UNCHANGED basicPrompt
    /\ Return(i)
    /\ UNCHANGED << envVars, questionAnswers, enhancedResult, imageVars,
                    dimensionVars, editVars, previewReads >>

-----------------------------------------------------------------------------
\* A count message that names the expected number only.
CountMessage_ExpectedOnly(n) ==
    "Niespodziewana liczba pytan od AI. Oczekiwano "
        \o ToString(NUMBER_OF_QUESTIONS_TO_ASK) \o "."

CountMessage(n) ==
    "Niespodziewana liczba pytan od AI. Otrzymano " \o ToString(n)
        \o ", oczekiwano " \o ToString(NUMBER_OF_QUESTIONS_TO_ASK) \o "."

handleBasicPromptSubmit ==
    /\ IF IdeaMissing
       THEN /\ error' = Some("Prosze wpisac podstawowy pomysl na prompt lub wygenerowac go z obrazu tematu.")
            /\ lastEvent' = Event("handleBasicPromptSubmit", "invalid", appState)
            /\ UNCHANGED << appState, requests >>
       ELSE /\ error' = None
            /\ appState' = "GENERATING_QUESTIONS"
            /\ requests' = Append(requests,
                   Request("handleBasicPromptSubmit", "call", QuestionsParts(basicPrompt)))
            /\ lastEvent' = Event("handleBasicPromptSubmit", "started", appState)
    /\ UNCHANGED << envVars, basicPrompt, questionAnswers, enhancedResult, imageVars,
                    dimensionVars, editVars, previewReads >>

handleBasicPromptSubmit_reply(i, reply) ==
    /\ Suspended(i, "handleBasicPromptSubmit", "call")
    /\ LET r == requests[i]
           newQuestionAnswers == generateQuestions(reply)
       IN  IF ~newQuestionAnswers.ok
           THEN /\ error' = Some(OrElse(newQuestionAnswers.message,
                                 "Nie udalo sie wygenerowac " \o ToString(NUMBER_OF_QUESTIONS_TO_ASK)
                                 \o " pytan. Sprawdz konsole, aby uzyskac wiecej szczegolow."))
                /\ appState' = "ERROR"
                /\ lastEvent' = Failed(r, reply)
                /\ UNCHANGED questionAnswers
           ELSE IF Len(newQuestionAnswers.value) # NUMBER_OF_QUESTIONS_TO_ASK
           THEN /\ error' = Some(OrElse(CountMessage(Len(newQuestionAnswers.value)),
                                 "Nie udalo sie wygenerowac " \o ToString(NUMBER_OF_QUESTIONS_TO_ASK)
                                 \o " pytan. Sprawdz konsole, aby uzyskac wiecej szczegolow."))
                /\ appState' = "ERROR"
                /\ lastEvent' = Miscounted(r, Len(newQuestionAnswers.value))
                /\ UNCHANGED questionAnswers
           ELSE /\ questionAnswers' = newQuestionAnswers.value
                /\ appState' = "ASKING_QUESTIONS"
                /\ lastEvent' = Succeeded(r, reply)
                /\ UNCHANGED error
    /\ Return(i)
    /\ UNCHANGED << envVars, basicPrompt, enhancedResult, imageVars, dimensionVars,
                    editVars, previewReads >>

-----------------------------------------------------------------------------
handleEnhancementSubmit ==
    /\ error' = None
    /\ appState' = "GENERATING_ENHANCEMENT"
    /\ requests' = Append(requests,
           IF subjectReferenceImageFile # None
           THEN Request("handleEnhancementSubmit", "readSubject", <<>>)
           ELSE Request("handleEnhancementSubmit", "call",
                        EnhancedParts(basicPrompt, None)))
    /\ lastEvent' = Event("handleEnhancementSubmit", "started", appState)
    /\ UNCHANGED << envVars, basicPrompt, questionAnswers, enhancedResult, imageVars,
                    dimensionVars, editVars, previewReads >>

\* An enhancement handler that returns from a failed read with the message
\* set and appState left as it is.
handleEnhancementSubmit_read_StaysGenerating(i, readOk) ==
    /\ Suspended(i, "handleEnhancementSubmit", "readSubject")
    /\ LET r == requests[i]
           subjectImagePayload == Some(ReferenceImage(r.subjectFile[1]))
       IN  IF readOk
           THEN /\ Proceed(i, "call", subjectImagePayload,
                           EnhancedParts(r.basicPrompt, subjectImagePayload))
                /\ lastEvent' = Continued(r, "readOk")
                /\ UNCHANGED << error, appState >>
           ELSE /\ error' = Some("Nie udalo sie przetworzyc obrazu referencyjnego tematu. Sprobuj ponownie lub kontynuuj bez obrazu.")
                /\ UNCHANGED appState
                /\ Return(i)
                /\ lastEvent' = Continued(r, "readError")
    /\ UNCHANGED << envVars, basicPrompt, questionAnswers, enhancedResult, imageVars,
                    dimensionVars, editVars, previewReads >>

handleEnhancementSubmit_read(i, readOk) ==
    /\ Suspended(i, "handleEnhancementSubmit", "readSubject")
    /\ LET r == requests[i]
           subjectImagePayload == Some(ReferenceImage(r.subjectFile[1]))
       IN  IF readOk
           THEN /\ Proceed(i, "call", subjectImagePayload,
                           EnhancedParts(r.basicPrompt, subjectImagePayload))
                /\ lastEvent' = Continued(r, "readOk")
                /\ UNCHANGED << error, appState >>
           ELSE /\ error' = Some("Nie udalo sie przetworzyc obrazu referencyjnego tematu. Sprobuj ponownie lub kontynuuj bez obrazu.")
                /\ appState' = "ASKING_QUESTIONS"
                /\ Return(i)
                /\ lastEvent' = Continued(r, "readError")
    /\ UNCHANGED << envVars, basicPrompt, questionAnswers, enhancedResult, imageVars,
                    dimensionVars, editVars, previewReads >>

handleEnhancementSubmit_reply(i, reply) ==
    /\ Suspended(i, "handleEnhancementSubmit", "call")
    /\ LET r == requests[i]
           result == generateEnhancedPrompt(reply)
       IN  IF result.ok
           THEN /\ enhancedResult' = Some(result.value)
                /\ appState' = "SHOWING_RESULTS"
                /\ lastEvent' = Succeeded(r, reply)
                /\ UNCHANGED error
           ELSE /\ error' = Some(OrElse(result.message,
                                 "Nie udalo sie wygenerowac ulepszonego promptu. Sprawdz konsole, aby uzyskac wiecej szczegolow."))
                /\ appState' = "ERROR"
                /\ lastEvent' = Failed(r, reply)
                /\ UNCHANGED enhancedResult
    /\ Return(i)
    /\ UNCHANGED << envVars, basicPrompt, questionAnswers, imageVars, dimensionVars,
                    editVars, previewReads >>

-----------------------------------------------------------------------------
handleMagicPromptSubmit ==
    /\ IF IdeaMissing
       THEN /\ error' = Some("Prosze wpisac podstawowy pomysl na prompt (moze byc po polsku lub angielsku) lub wygenerowac go z obrazu tematu.")
            /\ lastEvent' = Event("handleMagicPromptSubmit", "invalid", appState)
            /\ UNCHANGED << appState, requests >>
       ELSE IF CustomDimensionsRejected
       THEN /\ error' = Some("Dla niestandardowych wymiarow, prosze podac prawidlowa szerokosc i wysokosc (wieksze od 0).")
            /\ lastEvent' = Event("handleMagicPromptSubmit", "invalidDimensions", appState)
            /\ UNCHANGED << appState, requests >>
       ELSE /\ error' = None
            /\ appState' = "GENERATING_MAGIC_PROMPT"
            /\ requests' = Append(requests,
                   IF subjectReferenceImageFile # None
                   THEN Request("handleMagicPromptSubmit", "readSubject", <<>>)
                   ELSE Request("handleMagicPromptSubmit", "call",
                            MagicParts(basicPrompt, outputAspectRatio,
                                CurrentWidth(outputAspectRatio, outputCustomWidth),
                                CurrentHeight(outputAspectRatio, outputCustomHeight),
                                None)))
            /\ lastEvent' = Event("handleMagicPromptSubmit", "started", appState)
    /\ UNCHANGED << envVars, basicPrompt, questionAnswers, enhancedResult, imageVars,
                    dimensionVars, editVars, previewReads >>

\* A magic-prompt handler that sends a failed read to the questions screen.
handleMagicPromptSubmit_read_ToQuestions(i, readOk) ==
    /\ Suspended(i, "handleMagicPromptSubmit", "readSubject")
    /\ LET r == requests[i]
           subjectImagePayload == Some(ReferenceImage(r.subjectFile[1]))
       IN  IF readOk
           THEN /\ Proceed(i, "call", subjectImagePayload,
                       MagicParts(r.basicPrompt, r.aspectRatio,
                           CurrentWidth(r.aspectRatio, r.customWidth),
                           CurrentHeight(r.aspectRatio, r.customHeight),
                           subjectImagePayload))
                /\ lastEvent' = Continued(r, "readOk")
                /\ UNCHANGED << error, appState >>
           ELSE /\ error' = Some("Nie udalo sie przetworzyc obrazu referencyjnego tematu dla magicznego promptu. Sprobuj ponownie lub kontynuuj bez obrazu.")
                /\ appState' = "ASKING_QUESTIONS"
                /\ Return(i)
                /\ lastEvent' = Continued(r, "readError")
    /\ UNCHANGED << envVars, basicPrompt, questionAnswers, enhancedResult, imageVars,
                    dimensionVars, editVars, previewReads >>

handleMagicPromptSubmit_read(i, readOk) ==
    /\ Suspended(i, "handleMagicPromptSubmit", "readSubject")
    /\ LET r == requests[i]
           subjectImagePayload == Some(ReferenceImage(r.subjectFile[1]))
       IN  IF readOk
           THEN /\ Proceed(i, "call", subjectImagePayload,
                       MagicParts(r.basicPrompt, r.aspectRatio,
                           CurrentWidth(r.aspectRatio, r.customWidth),
                           CurrentHeight(r.aspectRatio, r.customHeight),
                           subjectImagePayload))
                /\ lastEvent' = Continued(r, "readOk")
                /\ UNCHANGED << error, appState >>
           ELSE /\ error' = Some("Nie udalo sie przetworzyc obrazu referencyjnego tematu dla magicznego promptu. Sprobuj ponownie lub kontynuuj bez obrazu.")
                /\ appState' = "INITIAL"
                /\ Return(i)
                /\ lastEvent' = Continued(r, "readError")
    /\ UNCHANGED << envVars, basicPrompt, questionAnswers, enhancedResult, imageVars,
                    dimensionVars, editVars, previewReads >>

\* A magic-prompt handler that drops the reply when a start-over ran while it
\* was waiting.
handleMagicPromptSubmit_reply_DropsStale(i, reply) ==
    /\ Suspended(i, "handleMagicPromptSubmit", "call")
    /\ LET r == requests[i]
           result == generateMagicPrompt(reply)
       IN  IF r.overtaken
           THEN /\ lastEvent' = Continued(r, IF result.ok THEN "success" ELSE "failure")
                /\ UNCHANGED << enhancedResult, appState, error >>
           ELSE IF result.ok
           THEN /\ enhancedResult' = Some(result.value)
                /\ appState' = "SHOWING_RESULTS"
                /\ lastEvent' = Succeeded(r, reply)
                /\ UNCHANGED error
           ELSE /\ error' = Some(OrElse(result.message,
                                 "Nie udalo sie wygenerowac magicznego promptu. Sprawdz konsole."))
                /\ appState' = "ERROR"
                /\ lastEvent' = Failed(r, reply)
                /\ UNCHANGED enhancedResult
    /\ Return(i)
    /\ UNCHANGED << envVars, basicPrompt, questionAnswers, imageVars, dimensionVars,
                    editVars, previewReads >>

handleMagicPromptSubmit_reply(i, reply) ==
    /\ Suspended(i, "handleMagicPromptSubmit", "call")
    /\ LET r == requests[i]
           result == generateMagicPrompt(reply)
       IN  IF result.ok
           THEN /\ enhancedResult' = Some(result.value)
                /\ appState' = "SHOWING_RESULTS"
                /\ lastEvent' = Succeeded(r, reply)
                /\ UNCHANGED error
           ELSE /\ error' = Some(OrElse(result.message,
                                 "Nie udalo sie wygenerowac magicznego promptu. Sprawdz konsole."))
                /\ appState' = "ERROR"
                /\ lastEvent' = Failed(r, reply)
                /\ UNCHANGED enhancedResult
    /\ Return(i)
    /\ UNCHANGED << envVars, basicPrompt, questionAnswers, imageVars, dimensionVars,
                    editVars, previewReads >>

-----------------------------------------------------------------------------
handleCopyImageSubmit ==
    /\ IF subjectReferenceImageFile = None
       THEN /\ error' = Some("Najpierw przeslij obraz (Temat/Obiekt), ktory chcesz skopiowac.")
            /\ lastEvent' = Event("handleCopyImageSubmit", "invalid", appState)
            /\ UNCHANGED << appState, requests >>
       ELSE /\ error' = None
            /\ appState' = "GENERATING_COPY_PROMPT"
            /\ requests' = Append(requests,
                   Request("handleCopyImageSubmit", "readSubject", <<>>))
            /\ lastEvent' = Event("handleCopyImageSubmit", "started", appState)
    /\ UNCHANGED << envVars, basicPrompt, questionAnswers, enhancedResult, imageVars,
                    dimensionVars, editVars, previewReads >>

\* handleCopyImageSubmit's read continuation, were a failed read to return to
\* the results screen as the refinement's does.
handleCopyImageSubmit_read_ToResults(i, readOk) ==
    /\ Suspended(i, "handleCopyImageSubmit", "readSubject")
    /\ LET r == requests[i]
       IN  IF readOk
           THEN /\ Proceed(i, "call", None, CopyParts(ReferenceImage(r.subjectFile[1])))
                /\ lastEvent' = Continued(r, "readOk")
                /\ UNCHANGED << error, appState >>
           ELSE /\ error' = Some("Nie udalo sie wygenerowac promptu do kopiowania obrazu. Sprawdz konsole.")
                /\ appState' = "SHOWING_RESULTS"
                /\ Return(i)
                /\ lastEvent' = Continued(r, "readError")
    /\ UNCHANGED << envVars, basicPrompt, questionAnswers, enhancedResult, imageVars,
                    dimensionVars, editVars, previewReads >>

\* The read is inside the handler's single try block: its failure is caught by
\* the same catch as a failure of the model call.
handleCopyImageSubmit_read(i, readOk) ==
    /\ Suspended(i, "handleCopyImageSubmit", "readSubject")
    /\ LET r == requests[i]
       IN  IF readOk
           THEN /\ Proceed(i, "call", None, CopyParts(ReferenceImage(r.subjectFile[1])))
                /\ lastEvent' = Continued(r, "readOk")
                /\ UNCHANGED << error, appState >>
           ELSE /\ error' = Some("Nie udalo sie wygenerowac promptu do kopiowania obrazu. Sprawdz konsole.")
                /\ appState' = "ERROR"
                /\ Return(i)
                /\ lastEvent' = Continued(r, "readError")
    /\ UNCHANGED << envVars, basicPrompt, questionAnswers, enhancedResult, imageVars,
                    dimensionVars, editVars, previewReads >>

\* A copy-image handler that returns to the initial screen when the call fails.
handleCopyImageSubmit_reply_ToInitial(i, reply) ==
    /\ Suspended(i, "handleCopyImageSubmit", "call")
    /\ LET r == requests[i]
           result == generateCopyImagePrompt(reply)
       IN  IF result.ok
           THEN /\ enhancedResult' = Some(result.value)
                /\ appState' = "SHOWING_RESULTS"
                /\ lastEvent' = Succeeded(r, reply)
                /\ UNCHANGED error
           ELSE /\ error' = Some(OrElse(result.message,
                                 "Nie udalo sie wygenerowac promptu do kopiowania obrazu. Sprawdz konsole."))
                /\ appState' = "INITIAL"
                /\ lastEvent' = Failed(r, reply)
                /\ UNCHANGED enhancedResult
    /\ Return(i)
    /\ UNCHANGED << envVars, basicPrompt, questionAnswers, imageVars, dimensionVars,
                    editVars, previewReads >>

handleCopyImageSubmit_reply(i, reply) ==
    /\ Suspended(i, "handleCopyImageSubmit", "call")
    /\ LET r == requests[i]
           result == generateCopyImagePrompt(reply)
       IN  IF result.ok
           THEN /\ enhancedResult' = Some(result.value)
                /\ appState' = "SHOWING_RESULTS"
                /\ lastEvent' = Succeeded(r, reply)
                /\ UNCHANGED error
           ELSE /\ error' = Some(OrElse(result.message,
                                 "Nie udalo sie wygenerowac promptu do kopiowania obrazu. Sprawdz konsole."))
                /\ appState' = "ERROR"
                /\ lastEvent' = Failed(r, reply)
                /\ UNCHANGED enhancedResult
    /\ Return(i)
    /\ UNCHANGED << envVars, basicPrompt, questionAnswers, imageVars, dimensionVars,
                    editVars, previewReads >>

-----------------------------------------------------------------------------
handleStyleInfluenceSubmit ==
    /\ IF styleReferenceImageFile = None
       THEN /\ error' = Some("Aby zastosowac wplyw stylu, przeslij 'Obraz Stylu Referencyjnego'.")
            /\ lastEvent' = Event("handleStyleInfluenceSubmit", "invalidStyle", appState)
            /\ UNCHANGED << appState, requests >>
       ELSE IF SubjectMissing
       THEN /\ error' = Some("Podaj 'Podstawowy pomysl/prompt' opisujacy temat LUB przeslij 'Obraz Referencyjny (Temat/Obiekt)'.")
            /\ lastEvent' = Event("handleStyleInfluenceSubmit", "invalid", appState)
            /\ UNCHANGED << appState, requests >>
       ELSE IF CustomDimensionsRejected
       THEN /\ error' = Some("Dla niestandardowych wymiarow, prosze podac prawidlowa szerokosc i wysokosc (wieksze od 0).")
            /\ lastEvent' = Event("handleStyleInfluenceSubmit", "invalidDimensions", appState)
            /\ UNCHANGED << appState, requests >>
       ELSE /\ error' = None
            /\ appState' = "GENERATING_STYLE_INFLUENCE_PROMPT"
            /\ requests' = Append(requests,
                   Request("handleStyleInfluenceSubmit",
                           IF subjectReferenceImageFile # None
                           THEN "readSubject" ELSE "readStyle",
                           <<>>))
            /\ lastEvent' = Event("handleStyleInfluenceSubmit", "started", appState)
    /\ UNCHANGED << envVars, basicPrompt, questionAnswers, enhancedResult, imageVars,
                    dimensionVars, editVars, previewReads >>

handleStyleInfluenceSubmit_readSubject(i, readOk) ==
    /\ Suspended(i, "handleStyleInfluenceSubmit", "readSubject")
    /\ LET r == requests[i]
       IN  IF readOk
           THEN /\ Proceed(i, "readStyle", Some(ReferenceImage(r.subjectFile[1])), <<>>)
                /\ lastEvent' = Continued(r, "readOk")
                /\ UNCHANGED << error, appState >>
           ELSE /\ error' = Some("Nie udalo sie przetworzyc obrazu referencyjnego tematu. Sprobuj ponownie.")
                /\ appState' = "INITIAL"
                /\ Return(i)
                /\ lastEvent' = Continued(r, "readError")
    /\ UNCHANGED << envVars, basicPrompt, questionAnswers, enhancedResult, imageVars,
                    dimensionVars, editVars, previewReads >>

handleStyleInfluenceSubmit_readStyle(i, readOk) ==
    /\ Suspended(i, "handleStyleInfluenceSubmit", "readStyle")
    /\ LET r == requests[i]
       IN  IF readOk
           THEN /\ Proceed(i, "call", r.subjectImage,
                       StyleParts(r.basicPrompt, ReferenceImage(r.styleFile[1]),
                           r.subjectImage, r.aspectRatio,
                           CurrentWidth(r.aspectRatio, r.customWidth),
                           CurrentHeight(r.aspectRatio, r.customHeight)))
                /\ lastEvent' = Continued(r, "readOk")
                /\ UNCHANGED << error, appState >>
           ELSE /\ error' = Some("Nie udalo sie przetworzyc obrazu stylu referencyjnego. Sprobuj ponownie.")
                /\ appState' = "INITIAL"
                /\ Return(i)
                /\ lastEvent' = Continued(r, "readError")
    /\ UNCHANGED << envVars, basicPrompt, questionAnswers, enhancedResult, imageVars,
                    dimensionVars, editVars, previewReads >>

handleStyleInfluenceSubmit_reply(i, reply) ==
    /\ Suspended(i, "handleStyleInfluenceSubmit", "call")
    /\ LET r == requests[i]
           result == generateStyleInfluencePrompt(reply)
       IN  IF result.ok
           THEN /\ enhancedResult' = Some(result.value)
                /\ appState' = "SHOWING_RESULTS"
                /\ lastEvent' = Succeeded(r, reply)
                /\ UNCHANGED error
           ELSE /\ error' = Some(OrElse(result.message,
                                 "Nie udalo sie wygenerowac promptu z wplywem stylu. Sprawdz konsole."))
                /\ appState' = "ERROR"
                /\ lastEvent' = Failed(r, reply)
                /\ UNCHANGED enhancedResult
    /\ Return(i)
    /\ UNCHANGED << envVars, basicPrompt, questionAnswers, imageVars, dimensionVars,
                    editVars, previewReads >>

-----------------------------------------------------------------------------
\* A draft is missing when the text is empty without looking at white space.
DraftMissing_NoTrim == editedEnhancedPromptText[1] = <<>>

\* !editedEnhancedPromptText.trim(), for a draft that is a string
DraftMissing == Trim(editedEnhancedPromptText[1]) = <<>>

\* editedEnhancedPromptText.trim() throws when the draft is undefined: the
\* handler then ends before its first state update.
handleSubmitRefinedPrompt ==
    /\ IF editedEnhancedPromptText = None
       THEN /\ lastEvent' = Event("handleSubmitRefinedPrompt", "threw", appState)
            /\ UNCHANGED << error, appState, requests >>
       ELSE IF DraftMissing
       THEN /\ error' = Some("Edytowany prompt nie moze byc pusty.")
            /\ lastEvent' = Event("handleSubmitRefinedPrompt", "invalid", appState)
            /\ UNCHANGED << appState, requests >>
       ELSE /\ error' = None
            /\ appState' = "GENERATING_REFINEMENT"
            /\ requests' = Append(requests,
                   IF subjectReferenceImageFile # None
                   THEN Request("handleSubmitRefinedPrompt", "readSubject", <<>>)
                   ELSE Request("handleSubmitRefinedPrompt", "call",
                                RefineParts(editedEnhancedPromptText[1], None)))
            /\ lastEvent' = Event("handleSubmitRefinedPrompt", "started", appState)
    /\ UNCHANGED << envVars, basicPrompt, questionAnswers, enhancedResult, imageVars,
                    dimensionVars, editVars, previewReads >>

handleSubmitRefinedPrompt_read(i, readOk) ==
    /\ Suspended(i, "handleSubmitRefinedPrompt", "readSubject")
    /\ LET r == requests[i]
           subjectImagePayload == Some(ReferenceImage(r.subjectFile[1]))
       IN  IF readOk
           THEN /\ Proceed(i, "call", subjectImagePayload,
                           RefineParts(r.editedText[1], subjectImagePayload))
                /\ lastEvent' = Continued(r, "readOk")
                /\ UNCHANGED << error, appState, isEditingEnhancedPrompt >>
           ELSE /\ error' = Some("Nie udalo sie przetworzyc obrazu referencyjnego tematu dla poprawki. Sprobuj ponownie.")
                /\ appState' = "SHOWING_RESULTS"
                /\ isEditingEnhancedPrompt' = TRUE
                /\ Return(i)
                /\ lastEvent' = Continued(r, "readError")
    /\ UNCHANGED << envVars, basicPrompt, questionAnswers, enhancedResult, imageVars,
                    dimensionVars, editedEnhancedPromptText, previewReads >>

\* handleSubmitRefinedPrompt's continuation, were a refinement that succeeded to
\* leave editing mode on.
handleSubmitRefinedPrompt_reply_KeepsEditing(i, reply) ==
    /\ Suspended(i, "handleSubmitRefinedPrompt", "call")
    /\ LET r == requests[i]
           result == refineEditedPrompt(reply)
       IN  IF result.ok
           THEN /\ enhancedResult' = Some(result.value)
                /\ appState' = "SHOWING_RESULTS"
                /\ lastEvent' = Succeeded(r, reply)
                /\ UNCHANGED << error, isEditingEnhancedPrompt >>
           ELSE /\ error' = Some(OrElse(result.message,
                                 "Nie udalo sie poprawic promptu. Sprawdz konsole."))
                /\ appState' = "ERROR"
                /\ lastEvent' = Failed(r, reply)
                /\ UNCHANGED << enhancedResult, isEditingEnhancedPrompt >>
    /\ Return(i)
    /\ UNCHANGED << envVars, basicPrompt, questionAnswers, imageVars, dimensionVars,
                    editedEnhancedPromptText, previewReads >>

handleSubmitRefinedPrompt_reply(i, reply) ==
    /\ Suspended(i, "handleSubmitRefinedPrompt", "call")
    /\ LET r == requests[i]
           result == refineEditedPrompt(reply)
       IN  IF result.ok
           THEN /\ enhancedResult' = Some(result.value)
                /\ appState' = "SHOWING_RESULTS"
                /\ isEditingEnhancedPrompt' = FALSE
                /\ lastEvent' = Succeeded(r, reply)
                /\ UNCHANGED error
           ELSE /\ error' = Some(OrElse(result.message,
                                 "Nie udalo sie poprawic promptu. Sprawdz konsole."))
                /\ appState' = "ERROR"
                /\ lastEvent' = Failed(r, reply)
                /\ UNCHANGED << enhancedResult, isEditingEnhancedPrompt >>
    /\ Return(i)
    /\ UNCHANGED << envVars, basicPrompt, questionAnswers, imageVars, dimensionVars,
                    editedEnhancedPromptText, previewReads >>

(***************************************************************************)
(* Inputs: what the user types and picks, and what the environment answers *)
(***************************************************************************)
MaxPreviewReads == 1

Ideas == { <<>>, <<"c", "a", "t">> }

ImageTypes == {"subject", "style"}

Files ==
    { File("a.jpg", "image/jpeg", MAX_IMAGE_SIZE_MB * MegaByte),
      File("b.gif", "image/gif", 1),
      File("c.png", "image/png", MAX_IMAGE_SIZE_MB * MegaByte + 1) }

AspectRatios == { "auto", "custom" }

\* Values of an <input type="number">: empty, or a valid floating-point number.
DimensionTexts == { <<>>, <<"1", "0", "0">> }

EditDrafts == { <<"e", "d">> }

DescriptionReplies == { Rejected, NotJson(<<"d", "o", "g">>) }

Questions(n) ==
    [i \in 1..n |-> JsonQuestion(Some("q" \o ToString(i)), Some("pytanie"),
                                 Some(<<"opcja1", "opcja2">>))]

QuestionReplies ==
    { Rejected,
      NotJson(<<"o", "k">>),
      Json(JsonNull),
      Json(JsonArray(Questions(NUMBER_OF_QUESTIONS_TO_ASK))),
      Json(JsonArray(Questions(NUMBER_OF_QUESTIONS_TO_ASK - 1))) }

ResultReplies ==
    { Rejected,
      NotJson(<<"o", "k">>),
      Json(JsonNull),
      Json(JsonObject(Some(<<"p">>), Some(<<"n">>), Some(<<"s1", "s2">>))),
      Json(JsonObject(Some(<<"p">>), Some(<<"n">>), None)),
      Json(JsonObject(None, Some(<<"n">>), None)) }

\* The answer changes the questions screen issues: a checkbox of an option of
\* the entry, or the entry's notes.
AnswerInputs == { <<None, Some("opcja1"), Some(TRUE)>>,
                  <<None, Some("opcja1"), Some(FALSE)>> }

(***************************************************************************)
(* The user's actions, as renderContent offers them                        *)
(***************************************************************************)
TypeBasicPrompt(ideas) ==
    \E text \in ideas : Clickable("basicPrompt") /\ setBasicPrompt(text)

UploadFile(files, imageTypes) ==
    \E file \in files, imageType \in imageTypes :
        /\ Clickable(IF imageType = "subject" THEN "uploadSubject" ELSE "uploadStyle")
        /\ UploadVerdict(file) = "accepted" => Len(previewReads) < MaxPreviewReads
        /\ handleImageUpload(file, imageType)

ClearImage ==
    \E imageType \in ImageTypes :
        /\ Clickable(IF imageType = "subject" THEN "clearSubject" ELSE "clearStyle")
        /\ clearReferenceImage(imageType)

SelectAspectRatio(aspectRatios) ==
    \E value \in aspectRatios : Clickable("aspectRatio") /\ setOutputAspectRatio(value)

TypeCustomWidth(texts) ==
    \E value \in texts :
        Clickable("customDimensions") /\ setOutputCustomWidth(value)

TypeCustomHeight(texts) ==
    \E value \in texts :
        Clickable("customDimensions") /\ setOutputCustomHeight(value)

ClickGenerateDescription ==
    Clickable("generateDescription") /\ handleGenerateDescriptionFromImage

ClickCopyImage == Clickable("copyImage") /\ handleCopyImageSubmit

ClickQuestions == Clickable("questions") /\ handleBasicPromptSubmit

ClickMagicPrompt == Clickable("magicPrompt") /\ handleMagicPromptSubmit

ClickStyleInfluence == Clickable("styleInfluence") /\ handleStyleInfluenceSubmit

ChangeAnswer(inputs) ==
    \E input \in inputs :
        /\ Clickable("answer")
        /\ handleAnswerChange(questionAnswers[1].id, input[1], input[2], input[3])

SubmitAnswers == Clickable("enhance") /\ handleEnhancementSubmit

ClickStartOver == Clickable("startOver") /\ handleStartOver

ClickEdit == Clickable("edit") /\ handleEditEnhancedPrompt

TypeEditDraft(drafts) ==
    \E text \in drafts : Clickable("editDraft") /\ setEditedEnhancedPromptText(text)

ClickCancelEdit == Clickable("cancelEdit") /\ handleCancelEditEnhancedPrompt

ClickSubmitRefined == Clickable("submitRefined") /\ handleSubmitRefinedPrompt

(***************************************************************************)
(* The environment's actions: reads end, replies arrive                    *)
(***************************************************************************)
PreviewRead ==
    \E i \in 1..Len(previewReads), readOk \in BOOLEAN : PreviewLoadEnd(i, readOk)

ImageRead ==
    \E i \in 1..Len(requests), readOk \in BOOLEAN :
        \/ handleGenerateDescriptionFromImage_read(i, readOk)
        \/ handleEnhancementSubmit_read(i, readOk)
        \/ handleMagicPromptSubmit_read(i, readOk)
        \/ handleCopyImageSubmit_read(i, readOk)
        \/ handleStyleInfluenceSubmit_readSubject(i, readOk)
        \/ handleStyleInfluenceSubmit_readStyle(i, readOk)
        \/ handleSubmitRefinedPrompt_read(i, readOk)

DescriptionReplyFrom(replies) ==
    \E i \in 1..Len(requests), reply \in replies :
        handleGenerateDescriptionFromImage_reply(i, reply)

DescriptionReply == DescriptionReplyFrom(DescriptionReplies)

QuestionsReplyFrom(replies) ==
    \E i \in 1..Len(requests), reply \in replies :
        handleBasicPromptSubmit_reply(i, reply)

QuestionsReply == QuestionsReplyFrom(QuestionReplies)

ResultReplyFrom(replies) ==
    \E i \in 1..Len(requests), reply \in replies :
        \/ handleEnhancementSubmit_reply(i, reply)
        \/ handleMagicPromptSubmit_reply(i, reply)
        \/ handleCopyImageSubmit_reply(i, reply)
        \/ handleStyleInfluenceSubmit_reply(i, reply)
        \/ handleSubmitRefinedPrompt_reply(i, reply)

ResultReply == ResultReplyFrom(ResultReplies)

Environment == PreviewRead \/ ImageRead \/ DescriptionReply \/ QuestionsReply \/ ResultReply

(***************************************************************************)
(* The application as the user can drive it                                *)
(***************************************************************************)
\* What the user does on the screens short of starting a generation.
Interaction ==
    \/ TypeBasicPrompt(Ideas)
    \/ UploadFile(Files, ImageTypes)
    \/ ClearImage
    \/ SelectAspectRatio(AspectRatios)
    \/ TypeCustomWidth(DimensionTexts)
    \/ TypeCustomHeight(DimensionTexts)
    \/ ChangeAnswer(AnswerInputs)
    \/ ClickEdit
    \/ TypeEditDraft(EditDrafts)
    \/ ClickCancelEdit

\* The seven controls that start a generation.
Submission ==
    \/ ClickGenerateDescription
    \/ ClickCopyImage
    \/ ClickQuestions
    \/ ClickMagicPrompt
    \/ ClickStyleInfluence
    \/ SubmitAnswers
    \/ ClickSubmitRefined

Next ==
    \/ MountEffect
    \/ Interaction
    \/ Submission
    \/ ClickStartOver
    \/ Environment

Spec == Init /\ [][Next]_vars

\* The same with every started file read ending and every started model call
\* answered or failed: the environment's side of each await.
SpecLive ==
    /\ Init
    /\ [][Next]_vars
    /\ WF_vars(ImageRead)
    /\ WF_vars(DescriptionReply)
    /\ WF_vars(QuestionsReply)
    /\ WF_vars(ResultReply)

(***************************************************************************)
(* The handlers as functions: handleStartOver may be invoked in every      *)
(* state of the mounted component, whatever renderContent shows.  The      *)
(* number of suspended handler invocations is bounded.                     *)
(***************************************************************************)
MaxInFlight == 1

InvokeStartOver == mounted /\ handleStartOver

\* The text-seeded flows: what matters here is which handler is suspended when
\* start-over runs, and what its continuation then does.
RaceInteraction ==
    \/ TypeBasicPrompt({ <<"c", "a", "t">> })
    \/ ClickEdit

RaceQuestions == Len(requests) < MaxInFlight /\ ClickQuestions

RaceMagicPrompt == Len(requests) < MaxInFlight /\ ClickMagicPrompt

RaceAnswers == Len(requests) < MaxInFlight /\ SubmitAnswers

RaceSubmitRefined == Len(requests) < MaxInFlight /\ ClickSubmitRefined

NextRace ==
    \/ MountEffect
    \/ RaceInteraction
    \/ RaceQuestions
    \/ RaceMagicPrompt
    \/ RaceAnswers
    \/ RaceSubmitRefined
    \/ InvokeStartOver
    \/ QuestionsReply
    \/ ResultReply

SpecRace == Init /\ [][NextRace]_vars

(***************************************************************************)
(* The submit handlers of the initial screen as functions: each may be     *)
(* invoked in every state of the mounted component, also where its button  *)
(* is disabled or not on the screen, so that the checks the handlers make  *)
(* themselves decide.  The replies are left out: a started generation      *)
(* stays suspended.                                                        *)
(***************************************************************************)
HandlerIdeas == { <<>>, <<" ">>, <<"c", "a", "t">> }

HandlerDimensionTexts == { <<>>, <<"0">>, <<"1", "0", "0">>, <<".", "5">> }

Invocable == mounted /\ Len(requests) < MaxInFlight

InvokeGenerateDescription == Invocable /\ handleGenerateDescriptionFromImage

InvokeCopyImage == Invocable /\ handleCopyImageSubmit

InvokeQuestions == Invocable /\ handleBasicPromptSubmit

InvokeMagicPrompt == Invocable /\ handleMagicPromptSubmit

InvokeStyleInfluence == Invocable /\ handleStyleInfluenceSubmit

NextHandlers ==
    \/ MountEffect
    \/ TypeBasicPrompt(HandlerIdeas)
    \/ UploadFile({ File("a.jpg", "image/jpeg", MAX_IMAGE_SIZE_MB * MegaByte) },
                  ImageTypes)
    \/ PreviewRead
    \/ SelectAspectRatio(AspectRatios)
    \/ TypeCustomWidth(HandlerDimensionTexts)
    \/ TypeCustomHeight(HandlerDimensionTexts)
    \/ InvokeGenerateDescription
    \/ InvokeCopyImage
    \/ InvokeQuestions
    \/ InvokeMagicPrompt
    \/ InvokeStyleInfluence

SpecHandlers == Init /\ [][NextHandlers]_vars

(***************************************************************************)
(* The upload handler over a wider range of files                          *)
(***************************************************************************)
\* Files of every allowed type and of a type outside the list, at sizes on
\* both sides of the limit.
UploadFiles ==
    { File("a.jpg", "image/jpeg", MAX_IMAGE_SIZE_MB * MegaByte),
      File("b.png", "image/png", 1),
      File("c.webp", "image/webp", MAX_IMAGE_SIZE_MB * MegaByte - 1),
      File("d.gif", "image/gif", 1),
      File("e.gif", "image/gif", MAX_IMAGE_SIZE_MB * MegaByte + 1),
      File("f.png", "image/png", MAX_IMAGE_SIZE_MB * MegaByte + 1),
      File("g.webp", "image/webp", 2 * MAX_IMAGE_SIZE_MB * MegaByte) }

NextUpload ==
    \/ MountEffect
    \/ UploadFile(UploadFiles, ImageTypes)
    \/ PreviewRead
    \/ ClearImage

SpecUpload == Init /\ [][NextUpload]_vars

(***************************************************************************)
(* The questions step over a wider range of replies and answer changes     *)
(***************************************************************************)
\* The eleven questions with the first one replaced.
QuestionsWith(first) ==
    [i \in 1..NUMBER_OF_QUESTIONS_TO_ASK |->
        IF i = 1 THEN first ELSE Questions(NUMBER_OF_QUESTIONS_TO_ASK)[i]]

\* Replies of no, too few, eleven and too many questions, of eleven questions
\* with a first one that lacks its text, has an empty text, repeats an option,
\* has no options or has the id of the second, and replies that are no array
\* or do not come.
QuestionStepReplies ==
    { Rejected,
      Json(JsonObject(Some(<<"p">>), Some(<<"n">>), None)),
      Json(JsonArray(<<>>)),
      Json(JsonArray(Questions(NUMBER_OF_QUESTIONS_TO_ASK - 1))),
      Json(JsonArray(Questions(NUMBER_OF_QUESTIONS_TO_ASK))),
      Json(JsonArray(Questions(NUMBER_OF_QUESTIONS_TO_ASK + 1))),
      Json(JsonArray(QuestionsWith(
          JsonQuestion(Some("q1"), None, Some(<<"opcja1", "opcja2">>))))),
      Json(JsonArray(QuestionsWith(
          JsonQuestion(Some("q1"), Some(""), Some(<<"opcja1", "opcja2">>))))),
      Json(JsonArray(QuestionsWith(
          JsonQuestion(Some("q1"), Some("pytanie"), Some(<<"opcja1", "opcja1">>))))),
      Json(JsonArray(QuestionsWith(
          JsonQuestion(Some("q1"), Some("pytanie"), None)))),
      Json(JsonArray(QuestionsWith(
          JsonQuestion(Some("q2"), Some("pytanie"), Some(<<"opcja1", "opcja2">>))))) }

\* handleAnswerChange called for an option with either value of the check
\* box, and for the notes.
QuestionStepInputs ==
    { <<None, Some("opcja1"), Some(TRUE)>>,
      <<None, Some("opcja1"), Some(FALSE)>>,
      <<None, Some("opcja2"), Some(TRUE)>>,
      <<None, Some("opcja2"), Some(FALSE)>>,
      <<Some(<<"n">>), None, None>> }

NextQuestions ==
    \/ MountEffect
    \/ TypeBasicPrompt({ <<"c", "a", "t">> })
    \/ ClickQuestions
    \/ QuestionsReplyFrom(QuestionStepReplies)
    \/ ChangeAnswer(QuestionStepInputs)
    \/ ClickStartOver

SpecQuestions == Init /\ [][NextQuestions]_vars

(***************************************************************************)
(* The questions screen as rendered: a check box for each option of each   *)
(* entry, which passes the entry's id, the option and its new value, and   *)
(* a notes field for each entry, which passes the entry's id and the text. *)
(* The entries the user answers are bounded.                               *)
(***************************************************************************)
MaxAnswered == 2

\* Replies of eleven questions: as asked for, with a first one that has no
\* options, and with a first one that has the id of the second and an option
\* of its own.
RenderedQuestionReplies ==
    { Json(JsonArray(Questions(NUMBER_OF_QUESTIONS_TO_ASK))),
      Json(JsonArray(QuestionsWith(
          JsonQuestion(Some("q1"), Some("pytanie"), None)))),
      Json(JsonArray(QuestionsWith(
          JsonQuestion(Some("q2"), Some("pytanie"), Some(<<"opcja3">>))))) }

\* onChange of a rendered check box: e.target.checked is the opposite of what
\* the box showed.
ToggleOption ==
    \E i \in 1..Len(questionAnswers) :
        /\ i <= MaxAnswered
        /\ Clickable("answer")
        /\ \E k \in 1..Len(questionAnswers[i].options) :
               LET qa == questionAnswers[i]
                   option == qa.options[k]
               IN  handleAnswerChange(qa.id, None, Some(option),
                                      Some(~Includes(qa.selectedOptions, option)))

\* onChange of the notes field of an entry.
TypeNotes(texts) ==
    \E i \in 1..Len(questionAnswers), text \in texts :
        /\ i <= MaxAnswered
        /\ Clickable("answer")
        /\ handleAnswerChange(questionAnswers[i].id, Some(text), None, None)

NextRendered ==
    \/ MountEffect
    \/ TypeBasicPrompt({ <<"c", "a", "t">> })
    \/ ClickQuestions
    \/ QuestionsReplyFrom(RenderedQuestionReplies)
    \/ ToggleOption
    \/ TypeNotes({ <<"n">> })
    \/ ClickStartOver

SpecRendered == Init /\ [][NextRendered]_vars

(***************************************************************************)
(* The seven generations over failures of differing detail                 *)
(***************************************************************************)
\* Calls the provider rejects for one reason or another, and replies that
\* are not JSON in one way or another.
FailureReplies ==
    { RejectedWith("429 quota exceeded"),
      RejectedWith("fetch failed"),
      NotJson(<<"o", "k">>),
      NotJson(<<"{">>) }

FailureDescriptionReplies ==
    { RejectedWith("429 quota exceeded"),
      RejectedWith("fetch failed"),
      NotJson(<<"d", "o", "g">>) }

FailureQuestionReplies ==
    FailureReplies \cup { Json(JsonNull),
                          Json(JsonArray(Questions(NUMBER_OF_QUESTIONS_TO_ASK))) }

FailureResultReplies ==
    FailureReplies \cup { Json(JsonNull),
                          Json(JsonObject(Some(<<"p">>), Some(<<"n">>), None)) }

NextFailures ==
    \/ MountEffect
    \/ TypeBasicPrompt({ <<"c", "a", "t">> })
    \/ UploadFile({ File("a.jpg", "image/jpeg", MAX_IMAGE_SIZE_MB * MegaByte) },
                  ImageTypes)
    \/ PreviewRead
    \/ Submission
    \/ ClickEdit
    \/ ClickStartOver
    \/ ImageRead
    \/ DescriptionReplyFrom(FailureDescriptionReplies)
    \/ QuestionsReplyFrom(FailureQuestionReplies)
    \/ ResultReplyFrom(FailureResultReplies)

SpecFailures == Init /\ [][NextFailures]_vars

\* The same with the mount effect run once the component has rendered, as
\* React runs it.
SpecStartup == Init /\ [][NextFailures]_vars /\ WF_vars(MountEffect)

(***************************************************************************)
(* The payloads of the seven requests, with two different images and the   *)
(* aspect ratios of every kind                                             *)
(***************************************************************************)
PayloadAspectRatios == { "auto", "16:9", IPHONE_14_WALLPAPER_OPTION_VALUE, "custom" }

PayloadUpload ==
    \/ UploadFile({ File("a.jpg", "image/jpeg", MAX_IMAGE_SIZE_MB * MegaByte) },
                  { "subject" })
    \/ UploadFile({ File("b.png", "image/png", 1) }, { "style" })

NextPayload ==
    \/ MountEffect
    \/ TypeBasicPrompt({ <<"c", "a", "t">> })
    \/ PayloadUpload
    \/ PreviewRead
    \/ SelectAspectRatio(PayloadAspectRatios)
    \/ TypeCustomWidth({ <<"1", "0", "0">> })
    \/ TypeCustomHeight({ <<"1", "0", "0">> })
    \/ Submission
    \/ ClickEdit
    \/ ImageRead
    \/ DescriptionReplyFrom({ NotJson(<<"c", "a", "t">>) })
    \/ QuestionsReplyFrom({ Json(JsonArray(Questions(NUMBER_OF_QUESTIONS_TO_ASK))) })
    \/ ResultReplyFrom({ Json(JsonObject(Some(<<"p">>), Some(<<"n">>), None)) })

SpecPayload == Init /\ [][NextPayload]_vars

(***************************************************************************)
(* The results screen and its edit mode, with the refinement handler       *)
(* invoked as a function: in every state of the mounted component, also    *)
(* where its button is disabled or not on the screen.                      *)
(***************************************************************************)
InvokeSubmitRefined == Invocable /\ handleSubmitRefinedPrompt

NextEdit ==
    \/ MountEffect
    \/ TypeBasicPrompt({ <<"c", "a", "t">> })
    \/ ClickMagicPrompt
    \/ ClickEdit
    \/ TypeEditDraft({ <<>>, <<" ">>, <<" ", "\n">>, <<"e", "d">> })
    \/ ClickCancelEdit
    \/ InvokeSubmitRefined
    \/ ClickStartOver
    \/ ResultReplyFrom(ResultReplies)

SpecEdit == Init /\ [][NextEdit]_vars

(***************************************************************************)
(* The two builders of the dimension text as functions, applied to the     *)
(* same arguments: every kind of aspect ratio, with and without a width    *)
(* and a height.                                                           *)
(***************************************************************************)
BuilderAspectRatios ==
    { "auto", "custom", "16:9", "1:1", IPHONE_14_WALLPAPER_OPTION_VALUE }

BuilderDimensionTexts ==
    { <<>>, <<"0">>, <<"1", "0", "0">>, <<"1", "1", "7", "0">>, <<"2", "5", "3", "2">> }

\* The history record of the two texts built from the same arguments.
DimensionsEvent(aspectRatio, customWidth, customHeight) ==
    [op |-> "dimensionsText", outcome |-> "", from |-> appState, overtaken |-> FALSE,
     aspectRatio |-> aspectRatio, customWidth |-> customWidth,
     customHeight |-> customHeight,
     magic |-> MagicDimensionsText(aspectRatio, customWidth, customHeight),
     style |-> StyleDimensionsText(aspectRatio, customWidth, customHeight)]

BuildDimensionsText ==
    \E aspectRatio \in BuilderAspectRatios,
       customWidth \in BuilderDimensionTexts,
       customHeight \in BuilderDimensionTexts :
        /\ lastEvent' = DimensionsEvent(aspectRatio, customWidth, customHeight)
        /\ UNCHANGED << envVars, appState, basicPrompt, questionAnswers,
                        enhancedResult, error, imageVars, dimensionVars, editVars,
                        requests, previewReads >>

NextDimensions == MountEffect \/ BuildDimensionsText

SpecDimensions == Init /\ [][NextDimensions]_vars

(***************************************************************************)
(* Properties                                                              *)
(***************************************************************************)
\* A message is set and is not the empty string.
HasMessage(e) == e # None /\ e[1] # ""

\* The step is the last one of an invocation that reached the model call:
\* the reply was turned into a result, or the call or the parse failed.
CallFailed(e) == e.outcome \in {"failure", "countMismatch"}

\* The state each handler moves to when its generation succeeds.
SuccessStateOf(op) ==
    CASE op = "handleGenerateDescriptionFromImage" -> "INITIAL"
      [] op = "handleBasicPromptSubmit" -> "ASKING_QUESTIONS"
      [] OTHER -> "SHOWING_RESULTS"

\* The same, by generating state.
SuccessState(generating) ==
    CASE generating = "GENERATING_DESCRIPTION" -> "INITIAL"
      [] generating = "GENERATING_QUESTIONS" -> "ASKING_QUESTIONS"
      [] OTHER -> "SHOWING_RESULTS"

\* The controls that start a generation.
SubmitControls ==
    {"generateDescription", "copyImage", "questions", "magicPrompt",
     "styleInfluence", "enhance", "submitRefined"}

-----------------------------------------------------------------------------
\* C1: a start-over, in whatever state it runs, leaves appState at INITIAL
\* with idea, questions, result, error message, both image slots, dimension
\* selection and edit state all cleared in the very next state.
C1_StartOverClears ==
    [][lastEvent'.op = "handleStartOver" =>
          /\ appState' = "INITIAL"
          /\ basicPrompt' = <<>>
          /\ questionAnswers' = <<>>
          /\ enhancedResult' = None
          /\ error' = None
          /\ subjectReferenceImageFile' = None
          /\ subjectReferenceImagePreview' = None
          /\ styleReferenceImageFile' = None
          /\ styleReferenceImagePreview' = None
          /\ outputAspectRatio' = "auto"
          /\ outputCustomWidth' = <<>>
          /\ outputCustomHeight' = <<>>
          /\ isEditingEnhancedPrompt' = FALSE
          /\ editedEnhancedPromptText' = Some(<<>>)]_vars

\* A start-over has just run on the results screen.
C1_Witness ==
    /\ lastEvent.op = "handleStartOver"
    /\ lastEvent.from = "SHOWING_RESULTS"
    /\ appState = "INITIAL"

-----------------------------------------------------------------------------
\* C2: at most one generation is in flight, and while one is in flight
\* appState is a generating state and no control that starts a generation
\* can be used.
C2_OneInFlight ==
    requests # <<>> =>
        /\ Len(requests) = 1
        /\ appState \in GeneratingStates
        /\ \A control \in SubmitControls : ~Clickable(control)

\* A generation is waiting for the model's reply.
C2_Witness ==
    /\ Len(requests) = 1
    /\ requests[1].stage = "call"
    /\ appState = "GENERATING_QUESTIONS"

-----------------------------------------------------------------------------
-----------------------------------------------------------------------------
\* C4, as stated: a generating state is left only to its success state or to
\* ERROR.
C4_SuccessOrError ==
    [][(appState \in GeneratingStates /\ appState' # appState) =>
          appState' \in {SuccessState(appState), "ERROR"}]_vars

\* The state a failed image read returns to, for the handlers that catch it
\* apart from the call.
ReadErrorReturn(generating) ==
    CASE generating = "GENERATING_ENHANCEMENT" -> {"ASKING_QUESTIONS"}
      [] generating \in {"GENERATING_MAGIC_PROMPT",
                         "GENERATING_STYLE_INFLUENCE_PROMPT"} -> {"INITIAL"}
      [] OTHER -> {}

\* C4, amended: a generating state is left only to its success state, to
\* ERROR, or, when reading an image fails, back to the screen the generation
\* was started from (ASKING_QUESTIONS for the enhancement, INITIAL for the
\* magic and the style-influence prompt).
C4_SuccessErrorOrReturn ==
    [][(appState \in GeneratingStates /\ appState' # appState) =>
          /\ appState' \in {SuccessState(appState), "ERROR"} \cup ReadErrorReturn(appState)
          /\ appState' \notin {SuccessState(appState), "ERROR"} =>
                lastEvent'.outcome = "readError"]_vars

\* The magic prompt's image read has failed and the initial screen is back.
C4_Witness ==
    /\ lastEvent.op = "handleMagicPromptSubmit"
    /\ lastEvent.outcome = "readError"
    /\ appState = "INITIAL"

-----------------------------------------------------------------------------
\* C5, as stated: for each of the seven generations, a failure of the model
\* call or of the parsing of its reply moves appState to ERROR with a
\* non-empty message.
C5_FailureToError ==
    [][CallFailed(lastEvent') => (appState' = "ERROR" /\ HasMessage(error'))]_vars

\* C5, amended: a failure of the model call or of the parsing of its reply
\* sets a non-empty message and moves appState to ERROR for six of the seven
\* generations; for the image description it moves appState back to INITIAL.
C5_FailureToErrorButDescription ==
    [][CallFailed(lastEvent') =>
          /\ HasMessage(error')
          /\ appState' = IF lastEvent'.op = "handleGenerateDescriptionFromImage"
                         THEN "INITIAL" ELSE "ERROR"]_vars

\* The copy-image call has failed and the error screen is shown.
C5_Witness ==
    /\ lastEvent.op = "handleCopyImageSubmit"
    /\ lastEvent.outcome = "failure"
    /\ appState = "ERROR"
    /\ HasMessage(error)

-----------------------------------------------------------------------------
\* C6: in every flow that reads an image, a failed read sets a message and
\* returns appState to the state the generation was started from, never to
\* ERROR.
C6_ReadErrorReturns ==
    [][lastEvent'.outcome = "readError" =>
          /\ appState' = lastEvent'.from
          /\ appState' # "ERROR"
          /\ HasMessage(error')]_vars

-----------------------------------------------------------------------------
\* The step is a handler's run up to its first await or its early return.
FirstStepOf(ops) ==
    /\ lastEvent'.op \in ops
    /\ lastEvent'.outcome \in {"invalid", "invalidStyle", "invalidDimensions",
                               "started", "threw"}

\* The step sets a message and nothing else: appState and all data stay, and
\* no request is issued.
RejectedStep ==
    /\ HasMessage(error')
    /\ UNCHANGED << appState, requests, basicPrompt, questionAnswers, enhancedResult,
                    imageVars, dimensionVars, editVars, previewReads, envVars >>

\* C7: a questions or magic-prompt submission with an empty or
\* white-space-only idea, and a description or copy-image request with no
\* subject image, leave appState and all data unchanged, set a message and
\* issue no request.
C7_PreconditionViolationRejected ==
    [][/\ ( /\ FirstStepOf({"handleBasicPromptSubmit", "handleMagicPromptSubmit"})
            /\ Trim(basicPrompt) = <<>> ) => RejectedStep
       /\ ( /\ FirstStepOf({"handleGenerateDescriptionFromImage",
                             "handleCopyImageSubmit"})
            /\ subjectReferenceImageFile = None ) => RejectedStep]_vars

\* The magic prompt has just been turned away for an idea of one blank.
C7_Witness ==
    /\ lastEvent.op = "handleMagicPromptSubmit"
    /\ lastEvent.outcome = "invalid"
    /\ basicPrompt = <<" ">>
    /\ appState = "INITIAL"
    /\ requests = <<>>

-----------------------------------------------------------------------------
\* C8, as stated: a style-influence submission with an empty idea is rejected
\* with a message and appState unchanged, whether or not a subject image is
\* present, so that the generating state is entered only with a style image
\* and a non-empty idea.
C8_EmptyIdeaRejected ==
    [][FirstStepOf({"handleStyleInfluenceSubmit"}) =>
          /\ lastEvent'.outcome = "started" =>
                (styleReferenceImageFile # None /\ Trim(basicPrompt) # <<>>)
          /\ Trim(basicPrompt) = <<>> =>
                (appState' = appState /\ HasMessage(error'))]_vars

\* C8, amended: the style-influence generating state is entered only when the
\* style image is present and the idea is non-empty or a subject image is
\* present; a submission with an empty idea is rejected with a message and
\* appState unchanged when there is no subject image, and is accepted when
\* there are a subject image and a style image (and no custom dimensions
\* to validate).
C8_EmptyIdeaNeedsSubject ==
    [][FirstStepOf({"handleStyleInfluenceSubmit"}) =>
          /\ lastEvent'.outcome = "started" =>
                /\ styleReferenceImageFile # None
                /\ Trim(basicPrompt) # <<>> \/ subjectReferenceImageFile # None
                /\ appState' = "GENERATING_STYLE_INFLUENCE_PROMPT"
          /\ (Trim(basicPrompt) = <<>> /\ subjectReferenceImageFile = None) =>
                (appState' = appState /\ requests' = requests /\ HasMessage(error'))
          /\ ( /\ Trim(basicPrompt) = <<>>
               /\ subjectReferenceImageFile # None
               /\ styleReferenceImageFile # None
               /\ outputAspectRatio # "custom" ) =>
                lastEvent'.outcome = "started"]_vars

\* A style-influence generation has started with an empty idea.
C8_Witness ==
    /\ lastEvent.op = "handleStyleInfluenceSubmit"
    /\ lastEvent.outcome = "started"
    /\ Trim(basicPrompt) = <<>>
    /\ subjectReferenceImageFile # None
    /\ appState = "GENERATING_STYLE_INFLUENCE_PROMPT"

-----------------------------------------------------------------------------
\* The text is a numeral of a positive integer.
PositiveIntegerText(text) ==
    /\ text # <<>>
    /\ \A i \in 1..Len(text) : IsDigit(text[i], 10)
    /\ DigitsValue(text, 10, 0) > 0

\* C9: with aspect ratio 'custom', a magic-prompt or style-influence
\* submission enters its generating state only if width and height are both
\* numerals of positive integers, and only on inputs that
\* isCustomDimensionsInvalid accepts as well; otherwise appState is unchanged
\* and a message is set.
C9_CustomDimensionsChecked ==
    [][( /\ FirstStepOf({"handleMagicPromptSubmit", "handleStyleInfluenceSubmit"})
         /\ outputAspectRatio = "custom" ) =>
          /\ lastEvent'.outcome = "started" =>
                /\ PositiveIntegerText(outputCustomWidth)
                /\ PositiveIntegerText(outputCustomHeight)
                /\ ~isCustomDimensionsInvalid
          /\ lastEvent'.outcome # "started" =>
                (appState' = appState /\ HasMessage(error'))]_vars

-----------------------------------------------------------------------------
\* C10: an upload is accepted if and only if the file's type is one of
\* image/jpeg, image/png, image/webp and its size is at most 5*1024*1024
\* bytes; a file of another type is rejected with the format message, a file
\* of an allowed type over the size with the size message, and every
\* rejection sets the slot's file and preview to none.
C10_UploadValidated ==
    [][lastEvent'.op = "handleImageUpload" =>
          LET file == lastEvent'.file
              allowed == file.type \in {"image/jpeg", "image/png", "image/webp"}
              fits == file.size <= 5 * 1024 * 1024
              slotFile == IF lastEvent'.imageType = "subject"
                          THEN subjectReferenceImageFile'
                          ELSE styleReferenceImageFile'
              slotPreview == IF lastEvent'.imageType = "subject"
                             THEN subjectReferenceImagePreview'
                             ELSE styleReferenceImagePreview'
              reading == [file |-> file, imageType |-> lastEvent'.imageType]
          IN  IF allowed /\ fits
              THEN /\ error' = None
                   /\ previewReads' = Append(previewReads, reading)
              ELSE /\ error' = Some(IF allowed THEN SizeMessage(file)
                                               ELSE FormatMessage(file))
                   /\ SizeMessage(file) # FormatMessage(file)
                   /\ previewReads' = previewReads
                   /\ slotFile = None
                   /\ slotPreview = None]_vars

\* A file one byte over the limit has just been turned away from a slot that
\* held an image, and the slot is empty.
C10_Witness ==
    /\ lastEvent.op = "handleImageUpload"
    /\ lastEvent.file.size = 5 * 1024 * 1024 + 1
    /\ lastEvent.file.type = "image/png"
    /\ lastEvent.held
    /\ lastEvent.imageType = "subject"
    /\ subjectReferenceImageFile = None
    /\ subjectReferenceImagePreview = None

-----------------------------------------------------------------------------
\* The generation controls that need the image of the slot.
ControlsOfSlot(imageType) ==
    IF imageType = "subject"
    THEN {"generateDescription", "copyImage"}
    ELSE {"styleInfluence"}

\* C11: a rejected upload changes neither appState nor the idea, the
\* questions, the result or the other slot, and after it no generation
\* control that needs the slot's image can be used until a later upload to
\* the slot is accepted: not right after the rejection, and not after a next
\* step that is no upload.
C11_RejectedUploadFrame ==
    [][/\ (lastEvent'.op = "handleImageUpload" /\ lastEvent'.outcome # "accepted") =>
            /\ UNCHANGED << appState, basicPrompt, questionAnswers, enhancedResult >>
            /\ IF lastEvent'.imageType = "subject"
               THEN UNCHANGED << styleReferenceImageFile, styleReferenceImagePreview >>
               ELSE UNCHANGED << subjectReferenceImageFile,
                                 subjectReferenceImagePreview >>
            /\ \A control \in ControlsOfSlot(lastEvent'.imageType) :
                   ~Clickable(control)'
       /\ ( /\ lastEvent.op = "handleImageUpload"
            /\ lastEvent.outcome # "accepted"
            /\ lastEvent'.op # "handleImageUpload" ) =>
            \A control \in ControlsOfSlot(lastEvent.imageType) :
                ~Clickable(control)']_vars

-----------------------------------------------------------------------------
\* C12: the questions screen is shown only with exactly 11 questions, and a
\* reply of n # 11 questions moves appState to ERROR with a message that
\* holds both n and 11, and leaves the questions as they were.
C12_ExactlyElevenQuestions ==
    [][/\ appState' = "ASKING_QUESTIONS" => Len(questionAnswers') = 11
       /\ lastEvent'.outcome = "countMismatch" =>
            /\ lastEvent'.count # 11
            /\ appState' = "ERROR"
            /\ error' = Some("Niespodziewana liczba pytan od AI. Otrzymano "
                              \o ToString(lastEvent'.count)
                              \o ", oczekiwano 11.")
            /\ questionAnswers' = questionAnswers]_vars

\* A reply of twelve questions has been turned into the error screen.
C12_Witness ==
    /\ lastEvent.outcome = "countMismatch"
    /\ lastEvent.count = 12
    /\ appState = "ERROR"
    /\ questionAnswers = <<>>

-----------------------------------------------------------------------------
\* C13: the questions screen is reached only when every one of the 11
\* questions has a questionText that is present and not empty.
C13_QuestionsHaveText ==
    appState = "ASKING_QUESTIONS" =>
        \A i \in 1..Len(questionAnswers) :
            /\ questionAnswers[i].questionText # None
            /\ questionAnswers[i].questionText[1] # ""

-----------------------------------------------------------------------------
\* The selected options of a question, as a set.
SelectedSet(qa) == { qa.selectedOptions[j] : j \in 1..Len(qa.selectedOptions) }

\* The last two steps were the selection and then the deselection of one
\* option of one question.
SelectedThenDeselected ==
    /\ lastEvent.op = "handleAnswerChange"
    /\ lastEvent.selectedOption # None
    /\ lastEvent.isChecked = Some(FALSE)
    /\ lastEvent.previous # None
    /\ lastEvent.previous[1].questionId = lastEvent.questionId
    /\ lastEvent.previous[1].selectedOption = lastEvent.selectedOption
    /\ lastEvent.previous[1].isChecked = Some(TRUE)

\* C17, as stated: selecting and then deselecting an option leaves the
\* selected options of the question, as a set, what they were before the
\* two, also when they held the option already.
C17_SelectDeselectRestores ==
    SelectedThenDeselected =>
        \A i \in 1..Len(questionAnswers) :
            questionAnswers[i].id = lastEvent.questionId =>
                SelectedSet(questionAnswers[i])
                    = SelectedSet(lastEvent.previous[1].before[i])

\* C17, amended: selecting and then deselecting an option leaves the selected
\* options of the question, as a set, what they were before the two without
\* that option: the same set when the option was not selected before, and
\* the set less the option when it was.
C17_SelectDeselectRemoves ==
    SelectedThenDeselected =>
        \A i \in 1..Len(questionAnswers) :
            questionAnswers[i].id = lastEvent.questionId =>
                SelectedSet(questionAnswers[i])
                    = SelectedSet(lastEvent.previous[1].before[i])
                          \ {lastEvent.selectedOption[1]}

\* An option that was selected already has been selected and deselected, and
\* is no longer among the selected options.
C17_Witness ==
    /\ SelectedThenDeselected
    /\ lastEvent.selectedOption = Some("opcja1")
    /\ "opcja1" \in SelectedSet(lastEvent.previous[1].before[1])
    /\ "opcja2" \in SelectedSet(questionAnswers[1])
    /\ "opcja1" \notin SelectedSet(questionAnswers[1])

-----------------------------------------------------------------------------
\* C18: the selected options of a question never hold an option twice.
C18_NoDuplicateSelection ==
    \A i \in 1..Len(questionAnswers) :
        \A j, k \in 1..Len(questionAnswers[i].selectedOptions) :
            j # k => questionAnswers[i].selectedOptions[j]
                         # questionAnswers[i].selectedOptions[k]

\* An option that was selected already has just been selected again, and the
\* question has two selected options.
C18_Witness ==
    /\ lastEvent.op = "handleAnswerChange"
    /\ lastEvent.isChecked = Some(TRUE)
    /\ lastEvent.selectedOption = Some("opcja1")
    /\ "opcja1" \in SelectedSet(lastEvent.before[1])
    /\ Len(questionAnswers[1].selectedOptions) = 2

-----------------------------------------------------------------------------
\* C14: a reply that parses but lacks enhancedPrompt or negativePrompt never
\* leads to the results screen: a result shown has both.
C14_ResultHasRequiredFields ==
    (appState = "SHOWING_RESULTS" /\ enhancedResult # None) =>
        /\ enhancedResult[1].enhancedPrompt # None
        /\ enhancedResult[1].negativePrompt # None

-----------------------------------------------------------------------------
\* The message each service function throws whatever error it caught.
FailureMessage(op) ==
    CASE op = "handleGenerateDescriptionFromImage" -> "Failed to generate image description"
      [] op = "handleBasicPromptSubmit" -> "Failed to generate questions"
      [] op = "handleEnhancementSubmit" -> "Failed to generate enhanced prompt"
      [] op = "handleMagicPromptSubmit" -> "Failed to generate magic prompt"
      [] op = "handleCopyImageSubmit" -> "Failed to generate copy image prompt"
      [] op = "handleStyleInfluenceSubmit" -> "Failed to generate style influence prompt"
      [] op = "handleSubmitRefinedPrompt" -> "Failed to refine edited prompt"

\* C15: after a failed call the message and appState depend on the operation
\* alone, not on the error the provider or the parser threw: whatever error
\* was logged, the message is the operation's own and appState is ERROR
\* (INITIAL for the description).
C15_MessageIndependentOfDetail ==
    [][lastEvent'.outcome = "failure" =>
          /\ error' = Some(FailureMessage(lastEvent'.op))
          /\ appState' = IF lastEvent'.op = "handleGenerateDescriptionFromImage"
                         THEN "INITIAL" ELSE "ERROR"]_vars

\* An enhancement has failed on a quota error and shows the message it shows
\* for every failure.
C15_Witness ==
    /\ lastEvent.outcome = "failure"
    /\ lastEvent.op = "handleEnhancementSubmit"
    /\ lastEvent.logged = "429 quota exceeded"
    /\ error = Some("Failed to generate enhanced prompt")
    /\ appState = "ERROR"

-----------------------------------------------------------------------------
\* The credential is missing, is the placeholder, or is no longer than 10.
CredentialInvalid ==
    \/ env.API_KEY = None
    \/ env.API_KEY[1] = "MISSING_API_KEY"
    \/ Len(env.API_KEY[1]) <= 10

\* C16: with a credential that is missing, the placeholder or too short,
\* appState becomes ERROR with a message, and no generating state is ever
\* reached, not even after a start-over has left ERROR for INITIAL.
C16_InvalidCredentialShowsError ==
    /\ (CredentialInvalid /\ ~mounted) ~> (appState = "ERROR" /\ HasMessage(error))
    /\ [](CredentialInvalid => (appState \notin GeneratingStates /\ requests = <<>>))

-----------------------------------------------------------------------------
\* C19: with the iPhone preset selected, the instruction text of a magic or
\* style-influence request holds the preset's pixel dimensions, 1170 by
\* 2532, as literal dimensions (in the form the builder gives dimensions).
C19_PresetDimensionsEmbedded ==
    \A i \in 1..Len(requests) :
        ( /\ requests[i].stage = "call"
          /\ requests[i].op \in {"handleMagicPromptSubmit", "handleStyleInfluenceSubmit"}
          /\ requests[i].aspectRatio = "iphone_14_14pro_wallpaper" ) =>
            requests[i].parts[1].dimensionsText = "Dimensions: 1170x2532px"

-----------------------------------------------------------------------------
\* The payload segment of an image file.
SegmentOf(file) ==
    [kind |-> "inlineData", mimeType |-> file.type, data |-> Base64(file)]

\* The segment, without the note of the argument it came from.
Sent(part) == [kind |-> part.kind, mimeType |-> part.mimeType, data |-> part.data]

\* C20: the segments of a request are the instruction text first, then the
\* style image (style-influence only), then the subject image if there is
\* one; no image comes before the text and the subject image never comes
\* before the style image.
C20_SegmentOrder ==
    \A i \in 1..Len(requests) :
        requests[i].stage = "call" =>
            LET r == requests[i]
                parts == r.parts
                images == [j \in 1..(Len(parts) - 1) |-> Sent(parts[j + 1])]
                style == IF r.op = "handleStyleInfluenceSubmit"
                         THEN << SegmentOf(r.styleFile[1]) >>
                         ELSE <<>>
                subject == IF r.op # "handleBasicPromptSubmit" /\ r.subjectFile # None
                           THEN << SegmentOf(r.subjectFile[1]) >>
                           ELSE <<>>
            IN  /\ Len(parts) >= 1
                /\ parts[1].kind = "text"
                /\ images = style \o subject

\* A style-influence request with both images is waiting for the reply: the
\* text, the style image b.png and the subject image a.jpg.
C20_Witness ==
    /\ Len(requests) = 1
    /\ requests[1].stage = "call"
    /\ requests[1].op = "handleStyleInfluenceSubmit"
    /\ Len(requests[1].parts) = 3
    /\ requests[1].parts[2].mimeType = "image/png"
    /\ requests[1].parts[3].mimeType = "image/jpeg"

-----------------------------------------------------------------------------
\* The five handlers that produce a result.
ResultOps ==
    {"handleEnhancementSubmit", "handleMagicPromptSubmit", "handleCopyImageSubmit",
     "handleStyleInfluenceSubmit", "handleSubmitRefinedPrompt"}

\* The reply parsed to an object that has no suggestions.
LacksSuggestions(reply) ==
    /\ reply.kind = "text"
    /\ reply.json # None
    /\ reply.json[1].type = "object"
    /\ reply.json[1].suggestions = None

\* C21: for each of the five result-producing operations, a reply that
\* parses to an object without suggestions makes the operation succeed:
\* appState becomes SHOWING_RESULTS and the result's suggestions are the
\* empty list.
C21_MissingSuggestionsNormalized ==
    [][( /\ lastEvent'.op \in ResultOps
         /\ lastEvent'.outcome \in {"success", "failure"}
         /\ LacksSuggestions(lastEvent'.reply) ) =>
          /\ lastEvent'.outcome = "success"
          /\ appState' = "SHOWING_RESULTS"
          /\ enhancedResult' # None
          /\ enhancedResult'[1].suggestions = <<>>]_vars

\* A refinement has succeeded on a reply without suggestions, and the result
\* shown has none.
C21_Witness ==
    /\ lastEvent.op = "handleSubmitRefinedPrompt"
    /\ lastEvent.outcome = "success"
    /\ LacksSuggestions(lastEvent.reply)
    /\ appState = "SHOWING_RESULTS"
    /\ enhancedResult[1].suggestions = <<>>
    /\ enhancedResult[1].enhancedPrompt = Some(<<"p">>)

-----------------------------------------------------------------------------
\* C22: whenever a result is held, its outputTypeUsed is set and is
\* RASTER_PROMPT, whichever of the five operations produced it.
C22_OutputTypeSet ==
    enhancedResult # None =>
        enhancedResult[1].outputTypeUsed = "RASTER_PROMPT"

\* A style-influence generation has just stored its result.
C22_Witness ==
    /\ lastEvent.op = "handleStyleInfluenceSubmit"
    /\ lastEvent.outcome = "success"
    /\ enhancedResult # None
    /\ enhancedResult[1].outputTypeUsed = "RASTER_PROMPT"

-----------------------------------------------------------------------------
\* C23: entering edit mode, changing the draft and cancelling the edit leave
\* the held result as it is, and the enhancedPrompt of a held result becomes
\* another only in the step in which one of the five generations, the
\* refinement among them, completes successfully.
C23_EditsKeepResult ==
    [][/\ lastEvent'.op \in {"handleEditEnhancedPrompt", "setEditedEnhancedPromptText",
                             "handleCancelEditEnhancedPrompt"} =>
            enhancedResult' = enhancedResult
       /\ ( /\ enhancedResult # None
            /\ enhancedResult' # None
            /\ enhancedResult'[1].enhancedPrompt # enhancedResult[1].enhancedPrompt ) =>
            (lastEvent'.op \in ResultOps /\ lastEvent'.outcome = "success")]_vars

\* In edit mode the draft has just been changed to a text that is not the
\* result's prompt, and the result holds its prompt.
C23_Witness ==
    /\ lastEvent.op = "setEditedEnhancedPromptText"
    /\ isEditingEnhancedPrompt
    /\ editedEnhancedPromptText = Some(<<"e", "d">>)
    /\ enhancedResult # None
    /\ enhancedResult[1].enhancedPrompt = Some(<<"p">>)

-----------------------------------------------------------------------------
\* C24: a refinement submitted with a draft that is empty or only white
\* space sets a message and changes nothing else: appState stays (at
\* SHOWING_RESULTS when submitted there), edit mode stays on, the result and
\* the draft stay, and no request is issued.
C24_EmptyDraftRejected ==
    [][( /\ FirstStepOf({"handleSubmitRefinedPrompt"})
         /\ editedEnhancedPromptText # None
         /\ Trim(editedEnhancedPromptText[1]) = <<>> ) =>
          /\ RejectedStep
          /\ error' = Some("Edytowany prompt nie moze byc pusty.")
          /\ (appState = "SHOWING_RESULTS" /\ isEditingEnhancedPrompt) =>
                (appState' = "SHOWING_RESULTS" /\ isEditingEnhancedPrompt')]_vars

\* A refinement has just been turned away in edit mode for a draft of one
\* blank.
C24_Witness ==
    /\ lastEvent.op = "handleSubmitRefinedPrompt"
    /\ lastEvent.outcome = "invalid"
    /\ editedEnhancedPromptText = Some(<<" ">>)
    /\ appState = "SHOWING_RESULTS"
    /\ isEditingEnhancedPrompt
    /\ enhancedResult # None
    /\ requests = <<>>
    /\ HasMessage(error)

-----------------------------------------------------------------------------
\* The controls of all screens.
Controls ==
    {"basicPrompt", "uploadSubject", "uploadStyle", "aspectRatio", "clearSubject",
     "clearStyle", "generateDescription", "copyImage", "customDimensions",
     "questions", "magicPrompt", "styleInfluence", "answer", "enhance",
     "startOver", "edit", "editDraft", "cancelEdit", "submitRefined"}

\* C25: in ERROR the start-over control is the only control the user can
\* use; no step taken in ERROR is a user's step other than the start-over;
\* and ERROR is left only by the start-over, to INITIAL with idea, questions,
\* result, message, both image slots, dimensions and edit state cleared,
\* never to a generating state, ASKING_QUESTIONS or SHOWING_RESULTS.
C25_ErrorOnlyRecovers ==
    [][appState = "ERROR" =>
          /\ \A control \in Controls : Clickable(control) <=> control = "startOver"
          /\ lastEvent'.op \in {"handleStartOver", "onloadend"}
          /\ appState' \notin GeneratingStates \cup {"ASKING_QUESTIONS", "SHOWING_RESULTS"}
          /\ appState' # "ERROR" =>
                /\ lastEvent'.op = "handleStartOver"
                /\ appState' = "INITIAL"
                /\ basicPrompt' = <<>>
                /\ questionAnswers' = <<>>
                /\ enhancedResult' = None
                /\ error' = None
                /\ subjectReferenceImageFile' = None
                /\ subjectReferenceImagePreview' = None
                /\ styleReferenceImageFile' = None
                /\ styleReferenceImagePreview' = None
                /\ outputAspectRatio' = "auto"
                /\ outputCustomWidth' = <<>>
                /\ outputCustomHeight' = <<>>
                /\ isEditingEnhancedPrompt' = FALSE
                /\ editedEnhancedPromptText' = Some(<<>>)]_vars

\* The start-over has just run on the error screen of an application whose
\* key is valid, and the initial screen is back with nothing held.
C25_Witness ==
    /\ lastEvent.op = "handleStartOver"
    /\ lastEvent.from = "ERROR"
    /\ appState = "INITIAL"
    /\ apiKeyExists
    /\ enhancedResult = None
    /\ basicPrompt = <<>>

-----------------------------------------------------------------------------
\* C26: clearing an image slot sets that slot's file and preview to none and
\* clears the message, and leaves the other slot's file and preview, the
\* idea, the aspect-ratio selection and appState as they were.
C26_ClearOneSlot ==
    [][lastEvent'.op = "clearReferenceImage" =>
          /\ error' = None
          /\ IF lastEvent'.outcome = "subject"
             THEN /\ subjectReferenceImageFile' = None
                  /\ subjectReferenceImagePreview' = None
                  /\ UNCHANGED << styleReferenceImageFile, styleReferenceImagePreview >>
             ELSE /\ styleReferenceImageFile' = None
                  /\ styleReferenceImagePreview' = None
                  /\ UNCHANGED << subjectReferenceImageFile,
                                  subjectReferenceImagePreview >>
          /\ UNCHANGED << basicPrompt, outputAspectRatio, outputCustomWidth,
                          outputCustomHeight, appState >>]_vars

\* The subject slot has just been cleared while a message was shown and the
\* style slot held an image: the style image, the idea and the custom ratio
\* are still there.
C26_Witness ==
    /\ lastEvent.op = "clearReferenceImage"
    /\ lastEvent.outcome = "subject"
    /\ lastEvent.shown # None
    /\ error = None
    /\ subjectReferenceImageFile = None
    /\ styleReferenceImageFile # None
    /\ styleReferenceImagePreview # None
    /\ basicPrompt = <<"c", "a", "t">>
    /\ outputAspectRatio = "custom"
    /\ appState = "INITIAL"

-----------------------------------------------------------------------------
\* C27: when every started file read ends and every started model call is
\* answered or fails, a generating state is always left in the end.
C27_GeneratingIsLeft ==
    (appState \in GeneratingStates) ~> (appState \notin GeneratingStates)

\* A style-influence generation has ended in a failed call, and the error
\* screen is shown.
C27_Witness ==
    /\ lastEvent.op = "handleStyleInfluenceSubmit"
    /\ lastEvent.outcome = "failure"
    /\ lastEvent.from = "INITIAL"
    /\ requests = <<>>
    /\ appState = "ERROR"

-----------------------------------------------------------------------------
\* C28: whenever appState is INITIAL or GENERATING_QUESTIONS there are no
\* questions, and the questions a successful submission installs carry no
\* answer and no selected option: nothing of an earlier batch is in them.
C28_NoBatchSurvives ==
    /\ appState \in {"INITIAL", "GENERATING_QUESTIONS"} => questionAnswers = <<>>
    /\ [][/\ appState' \in {"INITIAL", "GENERATING_QUESTIONS"} => questionAnswers' = <<>>
          /\ ( /\ lastEvent'.op = "handleBasicPromptSubmit"
               /\ lastEvent'.outcome = "success" ) =>
                \A i \in 1..Len(questionAnswers') :
                    /\ questionAnswers'[i].answer = <<>>
                    /\ questionAnswers'[i].selectedOptions = <<>>]_vars

\* The start-over has just run on the questions screen: the initial screen
\* is back and the batch is gone.
C28_Witness ==
    /\ lastEvent.op = "handleStartOver"
    /\ lastEvent.from = "ASKING_QUESTIONS"
    /\ appState = "INITIAL"
    /\ questionAnswers = <<>>
    /\ apiKeyExists

-----------------------------------------------------------------------------
\* C29: an answer change changes one entry at most, the one addressed by its
\* id, also when two entries have the same id; it changes neither the number
\* nor the order of the entries; a change of the note leaves the selected
\* options of the entry as they were, and a change of an option leaves the
\* note.
C29_OnlyAddressedEntryChanges ==
    [][lastEvent'.op = "handleAnswerChange" =>
          /\ Len(questionAnswers') = Len(questionAnswers)
          /\ \A i \in 1..Len(questionAnswers) :
                /\ questionAnswers'[i].id = questionAnswers[i].id
                /\ questionAnswers'[i].questionText = questionAnswers[i].questionText
                /\ questionAnswers'[i].options = questionAnswers[i].options
                /\ questionAnswers'[i] # questionAnswers[i] =>
                      questionAnswers[i].id = lastEvent'.questionId
                /\ lastEvent'.selectedOption = None =>
                      questionAnswers'[i].selectedOptions
                          = questionAnswers[i].selectedOptions
                /\ lastEvent'.answer = None =>
                      questionAnswers'[i].answer = questionAnswers[i].answer
          /\ \A i, j \in 1..Len(questionAnswers) :
                ( /\ questionAnswers'[i] # questionAnswers[i]
                  /\ questionAnswers'[j] # questionAnswers[j] ) => i = j]_vars

-----------------------------------------------------------------------------
\* The literal pixel dimensions as the builders write them.
PixelDimensions(customWidth, customHeight) ==
    "Dimensions: " \o TextToString(customWidth) \o "x"
        \o TextToString(customHeight) \o "px"

\* C30, as stated: the dimension text of both builders is empty for 'auto',
\* the literal pixel dimensions for 'custom' and the ratio for a named ratio,
\* and the two builders give the same text for the same aspect ratio, width
\* and height.
C30_BuildersAgree ==
    lastEvent.op = "dimensionsText" =>
        LET e == lastEvent
        IN  /\ e.aspectRatio = "auto" => (e.magic = "" /\ e.style = "")
            /\ e.aspectRatio = "custom" =>
                  /\ e.magic = PixelDimensions(e.customWidth, e.customHeight)
                  /\ e.style = PixelDimensions(e.customWidth, e.customHeight)
            /\ e.aspectRatio \notin {"auto", "custom"} =>
                  /\ e.magic = "Aspect ratio: " \o e.aspectRatio
                  /\ e.style = "Aspect ratio: " \o e.aspectRatio
            /\ e.magic = e.style

\* C30, amended: the dimension text of both builders is empty for 'auto' and
\* the ratio for a named ratio; for 'custom' with a width and a height that
\* are both non-empty it is the literal pixel dimensions in both; for
\* 'custom' with an empty width or height generateMagicPrompt still writes
\* pixel dimensions (with the empty part) and generateStyleInfluencePrompt
\* writes 'Aspect ratio: custom'.  The two builders give the same text for
\* the same arguments except in that last case.
C30_BuildersAgreeOnFilledCustom ==
    lastEvent.op = "dimensionsText" =>
        LET e == lastEvent
            filled == e.customWidth # <<>> /\ e.customHeight # <<>>
        IN  /\ e.aspectRatio = "auto" => (e.magic = "" /\ e.style = "")
            /\ e.aspectRatio = "custom" =>
                  /\ e.magic = PixelDimensions(e.customWidth, e.customHeight)
                  /\ e.style = IF filled
                               THEN PixelDimensions(e.customWidth, e.customHeight)
                               ELSE "Aspect ratio: custom"
            /\ e.aspectRatio \notin {"auto", "custom"} =>
                  /\ e.magic = "Aspect ratio: " \o e.aspectRatio
                  /\ e.style = "Aspect ratio: " \o e.aspectRatio
            /\ (e.aspectRatio # "custom" \/ filled) <=> e.magic = e.style

\* The builders have been applied to 'custom' with no width and a height of
\* 100, and their texts differ.
C30_Witness ==
    /\ lastEvent.op = "dimensionsText"
    /\ lastEvent.aspectRatio = "custom"
    /\ lastEvent.customWidth = <<>>
    /\ lastEvent.customHeight = <<"1", "0", "0">>
    /\ lastEvent.magic = "Dimensions: x100px"
    /\ lastEvent.style = "Aspect ratio: custom"

-----------------------------------------------------------------------------
\* C31: with a subject image present (file and preview), the copy-image
\* generation can be started by one user action on the initial screen and on
\* the questions screen: its control is there and enabled on both.
C31_CopyFromBothScreens ==
    ( /\ mounted
      /\ apiKeyExists
      /\ appState \in {"INITIAL", "ASKING_QUESTIONS"}
      /\ subjectReferenceImageFile # None
      /\ subjectReferenceImagePreview # None ) =>
        Clickable("copyImage")

-----------------------------------------------------------------------------
\* C32: a successful image-description generation replaces the basic idea by
\* the returned description, returns to INITIAL with no error message, and
\* leaves both image slots, the output dimensions, the Q&A set and the result
\* as they were.
C32_DescriptionSuccessFrame ==
    [][ ( /\ lastEvent'.op = "handleGenerateDescriptionFromImage"
          /\ lastEvent'.outcome = "success"
          /\ requests' # requests ) =>
            /\ basicPrompt' = lastEvent'.reply.text
            /\ appState' = "INITIAL"
            /\ error' = None
            /\ UNCHANGED << imageVars, dimensionVars, questionAnswers,
                            enhancedResult >> ]_vars

\* A description has just been returned for the uploaded subject image: it is
\* the idea now, the image is still held and the screen is the initial one.
C32_Witness ==
    /\ lastEvent.op = "handleGenerateDescriptionFromImage"
    /\ lastEvent.outcome = "success"
    /\ basicPrompt = lastEvent.reply.text
    /\ subjectReferenceImageFile # None
    /\ appState = "INITIAL"

-----------------------------------------------------------------------------
\* C33: whenever the results are shown a result is held; the results state is
\* entered only by a result-producing call that succeeded and stored its
\* result, or by the failed subject-image read of a refinement that was
\* started from the results.
C33_ShownResultIsHeld ==
    /\ [](appState = "SHOWING_RESULTS" => enhancedResult # None)
    /\ [][ (appState # "SHOWING_RESULTS" /\ appState' = "SHOWING_RESULTS") =>
             \/ /\ lastEvent'.op \in ResultOps
                /\ lastEvent'.outcome = "success"
                /\ enhancedResult' # None
             \/ /\ lastEvent'.op = "handleSubmitRefinedPrompt"
                /\ lastEvent'.outcome = "readError"
                /\ lastEvent'.from = "SHOWING_RESULTS"
                /\ enhancedResult' # None ]_vars

\* The results are shown again after a refinement whose image read failed:
\* the result refined is still the one held.
C33_Witness ==
    /\ appState = "SHOWING_RESULTS"
    /\ lastEvent.op = "handleSubmitRefinedPrompt"
    /\ lastEvent.outcome = "readError"
    /\ enhancedResult # None

-----------------------------------------------------------------------------
\* C34: whenever the state is ERROR a non-empty error message is set: every
\* step into ERROR sets one, and no step that stays in ERROR clears it.
C34_ErrorHasMessage ==
    /\ [](appState = "ERROR" => HasMessage(error))
    /\ [][ (appState # "ERROR" /\ appState' = "ERROR") => HasMessage(error') ]_vars
    /\ [][ (appState = "ERROR" /\ appState' = "ERROR") => HasMessage(error') ]_vars

\* The error screen after a model call that failed, with the failure's message.
C34_Witness ==
    /\ appState = "ERROR"
    /\ lastEvent.outcome = "failure"
    /\ HasMessage(error)

-----------------------------------------------------------------------------
\* The event e emptied the slot: it cleared it, rejected an upload to it, or
\* started over.
SlotEmptiedBy(e, imageType) ==
    \/ e.op = "clearReferenceImage" /\ e.outcome = imageType
    \/ e.op = "handleImageUpload" /\ e.outcome # "accepted" /\ e.imageType = imageType
    \/ e.op = "handleStartOver"

SlotEmpty(imageType) ==
    IF imageType = "subject"
    THEN subjectReferenceImageFile = None /\ subjectReferenceImagePreview = None
    ELSE styleReferenceImageFile = None /\ styleReferenceImagePreview = None

\* C35: a slot that has been emptied stays empty until a later upload to it
\* is accepted; in particular the step that follows the emptying, which is
\* no completed later upload, leaves the slot empty: the onloadend of a read
\* started before the emptying does not put the earlier file back.
C35_EmptiedSlotStaysEmpty ==
    [][ \A imageType \in ImageTypes :
            SlotEmptiedBy(lastEvent, imageType) => SlotEmpty(imageType)' ]_vars

-----------------------------------------------------------------------------
\* C36: in every state, for each image slot, the file is held exactly when the
\* preview is, also after a preview read that ended in failure.
C36_FileIffPreview ==
    /\ (subjectReferenceImageFile # None) <=> (subjectReferenceImagePreview # None)
    /\ (styleReferenceImageFile # None) <=> (styleReferenceImagePreview # None)

-----------------------------------------------------------------------------
\* C37: editing mode is on only while a result is held and the state is
\* SHOWING_RESULTS, GENERATING_REFINEMENT or ERROR, and a refinement that
\* succeeds ends with editing mode off and the results shown.
C37_EditingOnlyWithResult ==
    /\ [](isEditingEnhancedPrompt =>
            /\ enhancedResult # None
            /\ appState \in {"SHOWING_RESULTS", "GENERATING_REFINEMENT", "ERROR"})
    /\ [][ ( /\ lastEvent'.op = "handleSubmitRefinedPrompt"
             /\ lastEvent'.outcome = "success"
             /\ requests' # requests ) =>
               /\ ~isEditingEnhancedPrompt'
               /\ appState' = "SHOWING_RESULTS" ]_vars

\* A refinement failed: the error screen, with editing mode still on and the
\* result that was being refined still held.
C37_Witness ==
    /\ appState = "ERROR"
    /\ isEditingEnhancedPrompt
    /\ enhancedResult # None
    /\ lastEvent.op = "handleSubmitRefinedPrompt"

-----------------------------------------------------------------------------
\* Every selected option of the entry is one of the entry's options.
SelectedAmongOptions(qa) ==
    \A k \in 1..Len(qa.selectedOptions) : Includes(qa.options, qa.selectedOptions[k])

\* C38: every entry of a freshly generated batch has an empty note and no
\* selected option, and the empty list of options where the reply gave none;
\* and in every state the selected options of each entry are among the
\* options of that entry.
C38_SelectedWithinOptions ==
    /\ [](\A i \in 1..Len(questionAnswers) : SelectedAmongOptions(questionAnswers[i]))
    /\ [][ ( /\ lastEvent'.op = "handleBasicPromptSubmit"
             /\ lastEvent'.outcome = "success"
             /\ requests' # requests ) =>
               \A i \in 1..Len(questionAnswers') :
                   /\ questionAnswers'[i].answer = <<>>
                   /\ questionAnswers'[i].selectedOptions = <<>>
                   /\ lastEvent'.reply.json[1].items[i].options = None =>
                          questionAnswers'[i].options = <<>> ]_vars

====
